---- MODULE Spec2Model ----
(***************************************************************************)
(* hook-checktasks: the Stop-hook decision engine (run) and the helpers it *)
(* calls.  Strings are sequences of one-character strings, so that split,  *)
(* toLowerCase, includes and startsWith are computed and not assumed.      *)
(***************************************************************************)
EXTENDS Integers, Sequences, FiniteSets, TLC

\* -------------------------------------------------------------- bounds
\* Largest number of task files in the project's task-list directories, taken
\* together.
MaxFiles == 1

\* Largest number of pending task files in one directory of a store with a
\* backlog.
MaxPending == 4

\* Largest number of directories under ~/.claude/tasks in a call of the
\* matcher on its own.
MaxLists == 3

\* Largest number of lines of a transcript in a call of getSessionName on its
\* own.
MaxLines == 4

\* ------------------------------------------------------------- strings
UpperToLower ==
  ("A" :> "a") @@ ("B" :> "b") @@ ("C" :> "c") @@ ("D" :> "d") @@ ("E" :> "e") @@
  ("F" :> "f") @@ ("G" :> "g") @@ ("H" :> "h") @@ ("I" :> "i") @@ ("J" :> "j") @@
  ("K" :> "k") @@ ("L" :> "l") @@ ("M" :> "m") @@ ("N" :> "n") @@ ("O" :> "o") @@
  ("P" :> "p") @@ ("Q" :> "q") @@ ("R" :> "r") @@ ("S" :> "s") @@ ("T" :> "t") @@
  ("U" :> "u") @@ ("V" :> "v") @@ ("W" :> "w") @@ ("X" :> "x") @@ ("Y" :> "y") @@
  ("Z" :> "z")

\* String.prototype.toLowerCase
toLowerCase(s) ==
  [i \in 1..Len(s) |-> IF s[i] \in DOMAIN UpperToLower THEN UpperToLower[s[i]] ELSE s[i]]

\* String.prototype.startsWith
startsWith(s, p) ==
  /\ Len(p) <= Len(s)
  /\ SubSeq(s, 1, Len(p)) = p

\* String.prototype.includes
includes(s, sub) ==
  \E i \in 0..(Len(s) - Len(sub)) : SubSeq(s, i + 1, i + Len(sub)) = sub

\* String.prototype.split(sep) for a one-character separator: the pieces
\* between separators, empty pieces kept.
RECURSIVE SplitFrom(_, _, _, _)
SplitFrom(s, sep, i, cur) ==
  IF i > Len(s) THEN <<cur>>
  ELSE IF s[i] = sep THEN <<cur>> \o SplitFrom(s, sep, i + 1, <<>>)
  ELSE SplitFrom(s, sep, i + 1, Append(cur, s[i]))

split(s, sep) == SplitFrom(s, sep, 1, <<>>)

\* Array.prototype.filter(Boolean) on an array of strings: drops "".
filterBoolean(arr) == SelectSeq(arr, LAMBDA e : e # <<>>)

Whitespace == {" ", "\t", "\n"}

\* String.prototype.trim
RECURSIVE trimStart(_)
trimStart(s) ==
  IF s # <<>> /\ Head(s) \in Whitespace THEN trimStart(Tail(s)) ELSE s

RECURSIVE trimEnd(_)
trimEnd(s) ==
  IF s # <<>> /\ s[Len(s)] \in Whitespace THEN trimEnd(SubSeq(s, 1, Len(s) - 1)) ELSE s

trim(s) == trimEnd(trimStart(s))

SeqToSet(s) == {s[i] : i \in 1..Len(s)}

\* ------------------------------------------------- project identifiers
genericSegments ==
  { <<"u","s","e","r","s">>, <<"h","o","m","e">>,
    <<"w","o","r","k","s","p","a","c","e">>,
    <<"w","o","r","k","s","p","a","c","e","s">>,
    <<"p","r","o","j","e","c","t","s">>, <<"r","e","p","o","s">>,
    <<"s","r","c">>, <<"l","i","b">>, <<"a","p","p">>, <<"a","p","p","s">>,
    <<"p","a","c","k","a","g","e","s">>, <<"p","l","a","t","f","o","r","m">>,
    <<"s","e","r","v","i","c","e">>, <<"s","e","r","v","i","c","e","s">>,
    <<"w","e","b">>, <<"a","p","i">>, <<"s","e","r","v","e","r">>,
    <<"c","l","i","e","n","t">>, <<"f","r","o","n","t","e","n","d">>,
    <<"b","a","c","k","e","n","d">>, <<"d","e","v">>,
    <<"d","e","v","e","l","o","p","m","e","n","t">>, <<"p","r","o","d">>,
    <<"s","t","a","g","i","n","g">>, <<"t","m","p">>, <<"t","e","m","p">>,
    <<"v","a","r">>, <<"o","p","t">>, <<"u","s","r">>,
    <<"v","o","l","u","m","e","s">> }

\* Mutant: the first four segments of the path are skipped, not the first
\* three.
RECURSIVE IdentifiersFromSkipFour(_, _)
IdentifiersFromSkipFour(segments, i) ==
  IF i < 0 THEN <<>>
  ELSE LET seg == segments[i + 1]
           skip == \/ Len(seg) < 3
                   \/ toLowerCase(seg) \in genericSegments
                   \/ i <= 3
       IN (IF skip THEN <<>> ELSE <<seg>>) \o IdentifiersFromSkipFour(segments, i - 1)

\* Mutant: the stoplist is looked up without lowering the segment's case.
RECURSIVE IdentifiersFromExactCase(_, _)
IdentifiersFromExactCase(segments, i) ==
  IF i < 0 THEN <<>>
  ELSE LET seg == segments[i + 1]
           skip == \/ Len(seg) < 3
                   \/ seg \in genericSegments
                   \/ i <= 2
       IN (IF skip THEN <<>> ELSE <<seg>>) \o IdentifiersFromExactCase(segments, i - 1)

\* Mutant: only the first two segments are taken for the home directory.
RECURSIVE IdentifiersFromSkipTwo(_, _)
IdentifiersFromSkipTwo(segments, i) ==
  IF i < 0 THEN <<>>
  ELSE LET seg == segments[i + 1]
           skip == \/ Len(seg) < 3
                   \/ toLowerCase(seg) \in genericSegments
                   \/ i <= 1
       IN (IF skip THEN <<>> ELSE <<seg>>) \o IdentifiersFromSkipTwo(segments, i - 1)

\* The loop of getProjectIdentifiers: i runs from segments.length - 1 down
\* to 0 (0-based); TLA+ sequences are 1-based, so segment i is segments[i+1].
RECURSIVE IdentifiersFrom(_, _)
IdentifiersFrom(segments, i) ==
  IF i < 0 THEN <<>>
  ELSE LET seg == segments[i + 1]
           skip == \/ Len(seg) < 3
                   \/ toLowerCase(seg) \in genericSegments
                   \/ i <= 2
       IN (IF skip THEN <<>> ELSE <<seg>>) \o IdentifiersFrom(segments, i - 1)

getProjectIdentifiers(cwd) ==
  LET segments == filterBoolean(split(cwd, "/"))
  IN IdentifiersFrom(segments, Len(segments) - 1)

\* ----------------------------------------------------- task-list match
HexDigits ==
  {"0","1","2","3","4","5","6","7","8","9","a","b","c","d","e","f",
   "A","B","C","D","E","F"}

\* /^[0-9a-f]{8}-[0-9a-f]{4}-[0-9a-f]{4}-[0-9a-f]{4}-[0-9a-f]{12}$/i
uuidRegexTest(s) ==
  /\ Len(s) = 36
  /\ \A i \in 1..36 :
       IF i \in {9, 14, 19, 24} THEN s[i] = "-" ELSE s[i] \in HexDigits

Max(a, b) == IF a >= b THEN a ELSE b

\* Mutant: the identifier and "-" may stand anywhere in the list name.
RECURSIVE BestScoreFromAnywhere(_, _, _, _)
BestScoreFromAnywhere(listLower, identifiers, i, bestScore) ==
  IF i >= Len(identifiers) THEN bestScore
  ELSE LET idLower == toLowerCase(identifiers[i + 1])
           priorityWeight == Len(identifiers) - i
           next == IF listLower = idLower
                     THEN Max(bestScore, priorityWeight * 100)
                   ELSE IF includes(listLower, Append(idLower, "-"))
                     THEN Max(bestScore, priorityWeight * 10)
                   ELSE bestScore
       IN BestScoreFromAnywhere(listLower, identifiers, i + 1, next)

\* The inner loop over identifiers: bestScore for one list name.
RECURSIVE BestScoreFrom(_, _, _, _)
BestScoreFrom(listLower, identifiers, i, bestScore) ==
  IF i >= Len(identifiers) THEN bestScore
  ELSE LET idLower == toLowerCase(identifiers[i + 1])
           priorityWeight == Len(identifiers) - i
           next == IF listLower = idLower
                     THEN Max(bestScore, priorityWeight * 100)
                   ELSE IF startsWith(listLower, Append(idLower, "-"))
                     THEN Max(bestScore, priorityWeight * 10)
                   ELSE bestScore
       IN BestScoreFrom(listLower, identifiers, i + 1, next)

scoreOf(list, identifiers) == BestScoreFrom(toLowerCase(list), identifiers, 0, 0)

\* Mutant: a sort that puts an element before those of equal score.
RECURSIVE InsertBeforeEqual(_, _)
InsertBeforeEqual(sorted, e) ==
  IF sorted = <<>> THEN <<e>>
  ELSE IF Head(sorted).score > e.score
    THEN <<Head(sorted)>> \o InsertBeforeEqual(Tail(sorted), e)
  ELSE <<e>> \o sorted

\* Array.prototype.sort((a, b) => b.score - a.score): stable, descending.
RECURSIVE InsertByScore(_, _)
InsertByScore(sorted, e) ==
  IF sorted = <<>> THEN <<e>>
  ELSE IF Head(sorted).score >= e.score
    THEN <<Head(sorted)>> \o InsertByScore(Tail(sorted), e)
  ELSE <<e>> \o sorted

RECURSIVE sortByScore(_)
sortByScore(scored) ==
  IF scored = <<>> THEN <<>>
  ELSE InsertByScore(sortByScore(SubSeq(scored, 1, Len(scored) - 1)), scored[Len(scored)])

\* getProjectTaskLists with the directory listing passed in.
projectTaskLists(allLists, cwd) ==
  LET identifiers == getProjectIdentifiers(cwd)
      namedLists == SelectSeq(allLists, LAMBDA l : ~uuidRegexTest(l))
  IN IF Len(namedLists) = 0 \/ Len(identifiers) = 0 THEN <<>>
     ELSE LET all == [i \in 1..Len(namedLists) |->
                        [list |-> namedLists[i], score |-> scoreOf(namedLists[i], identifiers)]]
              scored == SelectSeq(all, LAMBDA e : e.score > 0)
              sorted == sortByScore(scored)
          IN [i \in 1..Len(sorted) |-> sorted[i].list]

\* ------------------------------------------------------- configuration
\* A settings.json file as readSettings meets it.
\*   kind: "missing" | "malformed" | "null" (the JSON text null) | "object"
\*   hasKey: the object has a truthy checkTasksConfig value, which is cfg
\* A CheckTasksConfig value:
\*   taskListId: the string, <<>> when undefined or empty (both falsy)
\*   keywords: [t |-> "undefined" | "array" | "string", v |-> the strings]
\*   enabled: "undefined" | "true" | "false"
NoConfig ==
  [taskListId |-> <<>>, keywords |-> [t |-> "undefined", v |-> <<>>], enabled |-> "undefined"]

\* readSettings: {} for a missing or unparseable file, else the parsed value.
readSettings(file) ==
  IF file.kind = "missing" THEN [isNull |-> FALSE, hasKey |-> FALSE, cfg |-> NoConfig]
  ELSE IF file.kind = "malformed" THEN [isNull |-> FALSE, hasKey |-> FALSE, cfg |-> NoConfig]
  ELSE IF file.kind = "null" THEN [isNull |-> TRUE, hasKey |-> FALSE, cfg |-> NoConfig]
  ELSE [isNull |-> FALSE, hasKey |-> file.hasKey, cfg |-> file.cfg]

\* process.env.CHECK_TASKS_KEYWORDS?.split(",").map(trim, lower).filter(Boolean) || ["dev"]
envKeywords(env) ==
  IF ~env.keywordsSet THEN << <<"d","e","v">> >>
  ELSE LET parts == split(env.keywords, ",")
       IN filterBoolean([i \in 1..Len(parts) |-> toLowerCase(trim(parts[i]))])

\* getConfig: project settings, else global settings, else the environment.
\* Indexing a settings value that parsed to null throws.
getConfig(project, global, env) ==
  LET projectSettings == readSettings(project)
      globalSettings == readSettings(global)
  IN IF projectSettings.isNull THEN [threw |-> TRUE, config |-> NoConfig]
     ELSE IF projectSettings.hasKey THEN [threw |-> FALSE, config |-> projectSettings.cfg]
     ELSE IF globalSettings.isNull THEN [threw |-> TRUE, config |-> NoConfig]
     ELSE IF globalSettings.hasKey THEN [threw |-> FALSE, config |-> globalSettings.cfg]
     ELSE [threw |-> FALSE,
           config |-> [taskListId |-> env.taskListId,
                       keywords |-> [t |-> "array", v |-> envKeywords(env)],
                       enabled |-> IF env.disabled # <<"1">> THEN "true" ELSE "false"]]

\* --------------------------------------------------------- session name
\* A transcript file: [exists, readable, lines]; a line is
\*   [markers |-> occurrences of "custom-title" (with quotes) in the line,
\*    parses |-> JSON.parse succeeds, type |-> entry.type,
\*    customTitle |-> [t |-> "undefined" | "string" | "number", v |-> text]]
NullTitle == [t |-> "null", v |-> <<>>]

truthy(val) ==
  /\ val.t \in {"string", "number"}
  /\ val.v # <<>>
  /\ ~(val.t = "number" /\ val.v = <<"0">>)

\* Mutant: the title of a custom-title record is taken even when it is empty.
scanOccurrenceAnyTitle(line, lastTitle) ==
  IF line.parses /\ line.type = "custom-title"
    THEN IF line.customTitle.t = "undefined" THEN NullTitle ELSE line.customTitle
    ELSE lastTitle

\* One pass of the while loop body for one occurrence of the marker in line.
scanOccurrence(line, lastTitle) ==
  IF line.parses /\ line.type = "custom-title" /\ truthy(line.customTitle)
    THEN line.customTitle
    ELSE lastTitle

RECURSIVE scanLine(_, _, _)
scanLine(line, k, lastTitle) ==
  IF k = 0 THEN lastTitle ELSE scanLine(line, k - 1, scanOccurrence(line, lastTitle))

RECURSIVE scanLines(_, _, _)
scanLines(lines, n, lastTitle) ==
  IF n > Len(lines) THEN lastTitle
  ELSE scanLines(lines, n + 1, scanLine(lines[n], lines[n].markers, lastTitle))

getSessionName(file) ==
  IF ~file.exists THEN NullTitle
  ELSE IF ~file.readable THEN NullTitle
  ELSE scanLines(file.lines, 1, NullTitle)

\* ----------------------------------------------------------- task store
\* A task-list directory: [kind |-> "missing" | "unreadable" | "dir",
\* files |-> the directory's files in readdir order], a file being one of
\*   "pending" | "in_progress" | "completed"  a task record with that status
\*   "null"       a .json file holding the JSON text null
\*   "malformed"  a .json file JSON.parse rejects
\*   "notjson"    a file whose name does not end in .json
TaskOf(listId, n, kind) ==
  [isNull |-> kind = "null", status |-> kind, subject |-> [list |-> listId, n |-> n]]

\* getTasksFromList: [] when the directory is missing or when readdir, a read
\* or a parse throws; else one value per .json file.
getTasksFromList(st, listId) ==
  LET dir == st[listId]
  IN IF dir.kind = "missing" THEN <<>>
     ELSE IF dir.kind = "unreadable" THEN <<>>
     ELSE LET idx == SelectSeq([n \in 1..Len(dir.files) |-> n],
                               LAMBDA n : dir.files[n] # "notjson")
          IN IF \E k \in 1..Len(idx) : dir.files[idx[k]] = "malformed" THEN <<>>
             ELSE [k \in 1..Len(idx) |-> TaskOf(listId, idx[k], dir.files[idx[k]])]

\* ------------------------------------------------------- the inputs
ProjDev == <<"p","r","o","j","-","d","e","v">>
ProjX == <<"p","r","o","j","-","x">>
ZetaDev == <<"z","e","t","a","-","d","e","v">>
UuidList ==
  <<"a","1","b","2","c","3","d","4","-","e","5","f","6","-","7","8","9","0","-",
    "a","b","c","d","-","1","2","3","4","5","6","7","8","9","0","a","b">>

\* The names a task-list directory may have, in readdir order.
DirOrder == <<ZetaDev, ProjX, UuidList, ProjDev>>
AllNames == SeqToSet(DirOrder)

\* /u/a/w/acme/Proj: identifiers Proj, acme.  /u/a/Proj: no identifier.
CwdProject == <<"/","u","/","a","/","w","/","a","c","m","e","/","P","r","o","j">>
CwdShallow == <<"/","u","/","a","/","P","r","o","j">>
\* process.cwd()
processCwd == CwdProject
TranscriptPath == <<"/","t",".","j","s","o","n","l">>

FileKinds == {"pending", "in_progress", "completed", "null", "malformed", "notjson"}
Dir(files) == [kind |-> "dir", files |-> files]
MissingDir == [kind |-> "missing", files |-> <<>>]
UnreadableDir == [kind |-> "unreadable", files |-> <<>>]
FileSeqs == UNION {[1..n -> FileKinds] : n \in 0..MaxFiles}
DirStates == {MissingDir, UnreadableDir} \cup {Dir(f) : f \in FileSeqs}

\* The task stores: the project's two lists hold at most MaxFiles files
\* between them; the two lists of other projects always have work left.
Stores ==
  {[n \in AllNames |->
      IF n = ProjDev THEN d1 ELSE IF n = ProjX THEN d2
      ELSE IF n = ZetaDev THEN Dir(<<"pending">>) ELSE Dir(<<"in_progress">>)] :
     <<d1, d2>> \in {dd \in DirStates \X DirStates :
                       Len(dd[1].files) + Len(dd[2].files) <= MaxFiles}}

\* n files of one kind
RECURSIVE Repeat(_, _)
Repeat(kind, n) == IF n = 0 THEN <<>> ELSE <<kind>> \o Repeat(kind, n - 1)

\* The task stores with a backlog: proj-dev holds up to MaxPending pending
\* tasks between an in-progress and a completed one, or tasks in mixed order,
\* or a file that does not parse next to a pending task; proj-x is missing or
\* holds a few files.
BacklogDirs ==
  {Dir(Repeat("in_progress", i) \o Repeat("pending", p) \o Repeat("completed", c)) :
     p \in 0..MaxPending, i \in 0..1, c \in 0..1}
  \cup {Dir(<<"completed", "pending", "in_progress", "pending">>),
        Dir(<<"pending", "malformed">>)}

BacklogStores ==
  {[n \in AllNames |->
      IF n = ProjDev THEN d1 ELSE IF n = ProjX THEN d2
      ELSE IF n = ZetaDev THEN Dir(<<"pending">>) ELSE Dir(<<"in_progress">>)] :
     d1 \in BacklogDirs,
     d2 \in {MissingDir, Dir(<<"completed", "pending">>), Dir(<<"pending", "pending">>),
             Dir(<<"malformed", "pending", "in_progress">>)}}

StdinValues ==
  { [parses |-> FALSE, cwd |-> <<>>, transcript_path |-> <<>>],
    [parses |-> TRUE, cwd |-> CwdProject, transcript_path |-> <<>>],
    [parses |-> TRUE, cwd |-> CwdProject, transcript_path |-> TranscriptPath],
    [parses |-> TRUE, cwd |-> CwdShallow, transcript_path |-> TranscriptPath],
    [parses |-> TRUE, cwd |-> <<>>, transcript_path |-> TranscriptPath] }

Dev == <<"d","e","v">>
KeywordValues ==
  { [t |-> "undefined", v |-> <<>>],
    [t |-> "array", v |-> <<>>],
    [t |-> "array", v |-> << <<"D","E","V">> >>],
    [t |-> "array", v |-> << <<"q","a">>, <<"x">> >>],
    [t |-> "array", v |-> << <<"q","a">> >>],
    [t |-> "string", v |-> <<Dev>>] }

SettingsConfigs ==
  {[taskListId |-> t, keywords |-> k, enabled |-> "undefined"] :
     t \in {<<>>, ProjDev, ProjX}, k \in KeywordValues}
  \cup
  {[taskListId |-> t, keywords |-> [t |-> "undefined", v |-> <<>>], enabled |-> e] :
     t \in {<<>>, ProjDev, ProjX}, e \in {"true", "false"}}

MissingFile == [kind |-> "missing", hasKey |-> FALSE, cfg |-> NoConfig]
MalformedFile == [kind |-> "malformed", hasKey |-> FALSE, cfg |-> NoConfig]
NullFile == [kind |-> "null", hasKey |-> FALSE, cfg |-> NoConfig]
ObjectFile(cfg) == [kind |-> "object", hasKey |-> TRUE, cfg |-> cfg]
PlainFile == [kind |-> "object", hasKey |-> FALSE, cfg |-> NoConfig]

NoEnv == [taskListId |-> <<>>, keywordsSet |-> FALSE, keywords |-> <<>>, disabled |-> <<>>]
EnvValues ==
  { NoEnv,
    [taskListId |-> ProjX, keywordsSet |-> TRUE,
     keywords |-> <<" ","D","e","v",",",",","x"," ">>, disabled |-> <<"0">>],
    [taskListId |-> ProjDev, keywordsSet |-> FALSE, keywords |-> <<>>, disabled |-> <<"1">>] }

\* (project settings, global settings, environment) as one invocation finds them.
ConfigSources ==
  {[project |-> ObjectFile(c), global |-> MissingFile, env |-> NoEnv] : c \in SettingsConfigs}
  \cup {[project |-> MalformedFile, global |-> ObjectFile(c), env |-> NoEnv] :
          c \in {[taskListId |-> ProjDev, keywords |-> [t |-> "array", v |-> <<Dev>>],
                  enabled |-> "true"]}}
  \cup {[project |-> MissingFile, global |-> PlainFile, env |-> e] : e \in EnvValues}
  \cup {[project |-> NullFile, global |-> MissingFile, env |-> NoEnv]}
  \cup {[project |-> ObjectFile(NoConfig), global |-> MissingFile, env |-> e] :
          e \in EnvValues \ {NoEnv}}

TitleLine(title) ==
  [markers |-> 1, parses |-> TRUE, type |-> "custom-title", customTitle |-> title]
Transcripts ==
  { [exists |-> FALSE, readable |-> FALSE, lines |-> <<>>],
    [exists |-> TRUE, readable |-> TRUE,
     lines |-> <<TitleLine([t |-> "string", v |-> <<"D","e","v"," ","r","u","n">>])>>],
    [exists |-> TRUE, readable |-> TRUE,
     lines |-> <<TitleLine([t |-> "string", v |-> <<"n","o","t","e","s">>]),
                 [markers |-> 2, parses |-> FALSE, type |-> "custom-title",
                  customTitle |-> [t |-> "string", v |-> Dev]]>>],
    [exists |-> TRUE, readable |-> TRUE,
     lines |-> <<TitleLine([t |-> "number", v |-> <<"5">>])>>] }

\* ------------------------------------------------------------ the state
VARIABLES
  store,          \* ~/.claude/tasks: list name -> directory
  pc,             \* where run is: a label, "done" (process.exit) or "crashed"
  hookInput,      \* run: hookInput
  cwd,            \* run: cwd
  config,         \* run: config
  keywords,       \* run: keywords
  listsToCheck,   \* run: listsToCheck
  sessionName,    \* run: sessionName
  listIndex,      \* position of the for-of loop in listsToCheck
  allPending,     \* run: allPending
  allInProgress,  \* run: allInProgress
  allCompleted,   \* run: allCompleted
  activeListId,   \* run: activeListId (<<>> for null)
  output,         \* the JSON objects written to stdout, in order
  exitCode,       \* -1 while running, 0 after process.exit(0), 1 after an uncaught throw
  emittedAt,      \* the call site of approve/block that wrote the output
  thrownAt,       \* the label at which an uncaught exception ended the run
  loaded,         \* the list ids getTasksFromList was called with, in order
  transcriptRead, \* getSessionName was called
  stdin,          \* what readStdinJson read: <<>> before the read, then <<value>>
  settings,       \* the settings files and environment getConfig read, likewise
  transcript,     \* the transcript file getSessionName read, likewise
  argCwd,         \* a call of getProjectIdentifiers / getProjectTaskLists: its cwd
  argLists,       \*   the listing getAllTaskLists returns to it
  retIdentifiers, \*   what getProjectIdentifiers returned
  retLists,       \*   what getProjectTaskLists returned
  argSettings,    \* a call of getConfig: the files and environment it reads
  retConfig,      \*   what it returned, or that it threw
  argTranscript,  \* a call of getSessionName: the file at its path
  retTitle,       \*   what it returned
  called,         \* the functions called on their own so far, in order
  settingsFile,   \* cli.ts: the settings.json at the target's settingsPath
  lastCommand     \* cli.ts: the installer command run last and how it ended

\* The variables of one invocation of run, and those of a function called on
\* its own.
runVars ==
  <<store, pc, hookInput, cwd, config, keywords, listsToCheck, sessionName, listIndex,
    allPending, allInProgress, allCompleted, activeListId, output, exitCode, emittedAt,
    thrownAt, loaded, transcriptRead, stdin, settings, transcript>>

callVars ==
  <<argCwd, argLists, retIdentifiers, retLists, argSettings, retConfig, argTranscript,
    retTitle, called>>

\* The variables of the installer.
cliVars == <<settingsFile, lastCommand>>

vars == <<runVars, callVars, cliVars>>

NoReason ==
  [remainingCount |-> 0, listInfo |-> <<>>, pending |-> 0, inProgress |-> 0,
   completed |-> 0, nextTasks |-> <<>>, more |-> 0]

\* No function has been called on its own: no arguments, nothing returned.
NoMatcherCall ==
  /\ argCwd = <<>>
  /\ argLists = <<>>
  /\ retIdentifiers = <<>>
  /\ retLists = <<>>

NoConfigCall ==
  /\ argSettings = [project |-> MissingFile, global |-> MissingFile, env |-> NoEnv]
  /\ retConfig = [threw |-> FALSE, config |-> NoConfig]

NoSessionCall ==
  /\ argTranscript = [exists |-> FALSE, readable |-> FALSE, lines |-> <<>>]
  /\ retTitle = NullTitle

NoCall ==
  /\ NoMatcherCall
  /\ NoConfigCall
  /\ NoSessionCall
  /\ called = <<>>

\* ~/.claude/tasks with no task list in it.
EmptyStore == [n \in AllNames |-> MissingDir]

\* The program has read nothing yet and decided nothing.
NothingRead ==
  /\ hookInput = [isNull |-> TRUE, cwd |-> <<>>, transcript_path |-> <<>>]
  /\ cwd = <<>>
  /\ config = NoConfig
  /\ keywords = [t |-> "undefined", v |-> <<>>]
  /\ listsToCheck = <<>>
  /\ sessionName = NullTitle
  /\ listIndex = 0
  /\ allPending = <<>>
  /\ allInProgress = <<>>
  /\ allCompleted = <<>>
  /\ activeListId = <<>>
  /\ output = <<>>
  /\ exitCode = -1
  /\ emittedAt = "none"
  /\ thrownAt = "none"
  /\ loaded = <<>>
  /\ transcriptRead = FALSE
  /\ stdin = <<>>
  /\ settings = <<>>
  /\ transcript = <<>>

\* A settings.json as the installer finds it: missing, not JSON, the JSON
\* value null, or an object (its value in the value field).
NoSettings == [hooks |-> <<>>, checkTasksConfig |-> <<>>, model |-> <<>>]
FileOf(kind, value) == [kind |-> kind, value |-> value]

\* What is known of the installer command run last.
NoCommand == [name |-> "none", wrote |-> FALSE, threw |-> FALSE]

\* No installer command has run and the target has no settings file.
NoCommandRun ==
  /\ settingsFile = FileOf("missing", NoSettings)
  /\ lastCommand = NoCommand

\* run has been entered and has read nothing yet.
RunEntered ==
  /\ pc = "start"
  /\ NothingRead

Init ==
  /\ store \in Stores
  /\ RunEntered
  /\ NoCommandRun
  /\ NoCall

\* ------------------------------------------------------------- helpers
\* getAllTaskLists: the directories under ~/.claude/tasks, in readdir order.
getAllTaskLists(st) == SelectSeq(DirOrder, LAMBDA n : st[n].kind # "missing")

\* Mutant: every stored list when none matches the project.
getProjectTaskListsOrAll(st, dir) ==
  IF projectTaskLists(getAllTaskLists(st), dir) = <<>>
    THEN getAllTaskLists(st)
    ELSE projectTaskLists(getAllTaskLists(st), dir)

\* getProjectTaskLists(cwd) over the store st
getProjectTaskLists(st, dir) == projectTaskLists(getAllTaskLists(st), dir)

DefaultKeywords == [t |-> "array", v |-> <<Dev>>]

\* keywords.length: of the array, or of the string when keywords is a string
keywordsLength(k) == IF k.t = "string" THEN Len(k.v[1]) ELSE Len(k.v)

\* keywords.some((keyword) => name.toLowerCase().includes(keyword.toLowerCase()))
someKeywordIn(k, name) ==
  \E n \in 1..Len(k.v) : includes(toLowerCase(name), toLowerCase(k.v[n]))

\* projectLists.filter((list) => keywords.some(...))
keywordMatched(projectLists, k) ==
  SelectSeq(projectLists, LAMBDA list : someKeywordIn(k, list))

\* Mutant: no fall back to the whole ranking when no name has a keyword.
resolveListsNoFallback(st, cfg, k, dir) ==
  IF cfg.taskListId # <<>>
    THEN [threw |-> FALSE, lists |-> <<cfg.taskListId>>]
  ELSE LET projectLists == getProjectTaskLists(st, dir)
       IN IF Len(projectLists) > 0
            THEN IF keywordsLength(k) > 0
                   THEN IF k.t # "array" THEN [threw |-> TRUE, lists |-> <<>>]
                        ELSE [threw |-> FALSE, lists |-> keywordMatched(projectLists, k)]
                   ELSE [threw |-> FALSE, lists |-> projectLists]
            ELSE [threw |-> FALSE, lists |-> <<>>]

\* Mutant: the keyword filter applied to the explicit taskListId as well.
resolveListsFilterExplicit(st, cfg, k, dir) ==
  LET candidates == IF cfg.taskListId # <<>> THEN <<cfg.taskListId>>
                    ELSE getProjectTaskLists(st, dir)
  IN IF Len(candidates) > 0 /\ keywordsLength(k) > 0
       THEN IF k.t # "array" THEN [threw |-> TRUE, lists |-> <<>>]
            ELSE LET matched == keywordMatched(candidates, k)
                 IN [threw |-> FALSE,
                     lists |-> IF cfg.taskListId = <<>> /\ Len(matched) = 0
                                 THEN candidates ELSE matched]
       ELSE [threw |-> FALSE, lists |-> candidates]

\* Mutant: with no project list found, check every stored list.
resolveListsAllWhenNone(st, cfg, k, dir) ==
  IF cfg.taskListId # <<>>
    THEN [threw |-> FALSE, lists |-> <<cfg.taskListId>>]
  ELSE LET projectLists == getProjectTaskLists(st, dir)
       IN IF Len(projectLists) > 0
            THEN IF keywordsLength(k) > 0
                   THEN IF k.t # "array" THEN [threw |-> TRUE, lists |-> <<>>]
                        ELSE LET matched == keywordMatched(projectLists, k)
                             IN [threw |-> FALSE,
                                 lists |-> IF Len(matched) > 0 THEN matched ELSE projectLists]
                   ELSE [threw |-> FALSE, lists |-> projectLists]
            ELSE [threw |-> FALSE, lists |-> getAllTaskLists(st)]

\* Lines 253-277: the lists to check, and whether evaluating them throws
\* (keywords.some on a value that is not an array).
resolveLists(st, cfg, k, dir) ==
  IF cfg.taskListId # <<>>
    THEN [threw |-> FALSE, lists |-> <<cfg.taskListId>>]
  ELSE LET projectLists == getProjectTaskLists(st, dir)
       IN IF Len(projectLists) > 0
            THEN IF keywordsLength(k) > 0
                   THEN IF k.t # "array" THEN [threw |-> TRUE, lists |-> <<>>]
                        ELSE LET matched == keywordMatched(projectLists, k)
                             IN [threw |-> FALSE,
                                 lists |-> IF Len(matched) > 0 THEN matched ELSE projectLists]
                   ELSE [threw |-> FALSE, lists |-> projectLists]
            ELSE [threw |-> FALSE, lists |-> <<>>]

\* Mutant: the list counts as matching only when an explicit taskListId does.
sessionGateListMustMatch(cfg, k, name) ==
  IF truthy(name) /\ keywordsLength(k) > 0
    THEN IF k.t # "array" \/ name.t # "string" THEN "throw"
         ELSE LET sessionMatchesKeyword == someKeywordIn(k, name.v)
                  listMatchesKeyword ==
                    IF cfg.taskListId # <<>> THEN someKeywordIn(k, cfg.taskListId) ELSE FALSE
              IN IF ~sessionMatchesKeyword /\ ~listMatchesKeyword THEN "approve" ELSE "continue"
    ELSE "continue"

\* Lines 292-305: "approve", "continue", or "throw" (keywords.some on a
\* non-array, sessionName.toLowerCase on a non-string).
sessionGate(cfg, k, name) ==
  IF truthy(name) /\ keywordsLength(k) > 0
    THEN IF k.t # "array" \/ name.t # "string" THEN "throw"
         ELSE LET sessionMatchesKeyword == someKeywordIn(k, name.v)
                  listMatchesKeyword ==
                    IF cfg.taskListId # <<>> THEN someKeywordIn(k, cfg.taskListId) ELSE TRUE
              IN IF ~sessionMatchesKeyword /\ ~listMatchesKeyword THEN "approve" ELSE "continue"
    ELSE "continue"

\* Mutant: the in-progress status spelt with a hyphen.
filterStatusHyphen(tasks, status) ==
  SelectSeq(tasks, LAMBDA t : t.status = IF status = "in_progress" THEN "in-progress"
                                          ELSE status)

\* tasks.filter((t) => t.status === status); reading .status of null throws.
filterStatus(tasks, status) == SelectSeq(tasks, LAMBDA t : t.status = status)
filterThrows(tasks) == \E n \in 1..Len(tasks) : tasks[n].isNull

\* Mutant: the overflow note counts from all remaining tasks.
blockReasonMoreOfRemaining(pendingTasks, inProgressTasks, completedTasks, active) ==
  [remainingCount |-> Len(pendingTasks) + Len(inProgressTasks),
   listInfo |-> active,
   pending |-> Len(pendingTasks),
   inProgress |-> Len(inProgressTasks),
   completed |-> Len(completedTasks),
   nextTasks |-> [n \in 1..(IF Len(pendingTasks) < 3 THEN Len(pendingTasks) ELSE 3) |->
                    pendingTasks[n].subject],
   more |-> IF Len(pendingTasks) + Len(inProgressTasks) > 3
              THEN Len(pendingTasks) + Len(inProgressTasks) - 3 ELSE 0]

\* Lines 331-366: the interpolated parts of the prompt.
blockReason(pendingTasks, inProgressTasks, completedTasks, active) ==
  [remainingCount |-> Len(pendingTasks) + Len(inProgressTasks),
   listInfo |-> active,
   pending |-> Len(pendingTasks),
   inProgress |-> Len(inProgressTasks),
   completed |-> Len(completedTasks),
   nextTasks |-> [n \in 1..(IF Len(pendingTasks) < 3 THEN Len(pendingTasks) ELSE 3) |->
                    pendingTasks[n].subject],
   more |-> IF Len(pendingTasks) > 3 THEN Len(pendingTasks) - 3 ELSE 0]

\* Mutant: approve() writes the decision and returns to its caller.
approveAndReturn(at) ==
  /\ output' = Append(output, [decision |-> "approve", reason |-> NoReason])
  /\ emittedAt' = at
  /\ pc' = IF at = "disabled" THEN "resolve"
           ELSE IF at = "empty" THEN "session"
           ELSE IF at = "gate" THEN "collect"
           ELSE "done"
  /\ exitCode' = IF at = "final" THEN 0 ELSE exitCode
  /\ UNCHANGED thrownAt

\* approve(): write the decision and process.exit(0).
approve(at) ==
  /\ output' = Append(output, [decision |-> "approve", reason |-> NoReason])
  /\ exitCode' = 0
  /\ emittedAt' = at
  /\ pc' = "done"
  /\ UNCHANGED thrownAt

\* block(reason): write the decision and process.exit(0).
block(at, reason) ==
  /\ output' = Append(output, [decision |-> "block", reason |-> reason])
  /\ exitCode' = 0
  /\ emittedAt' = at
  /\ pc' = "done"
  /\ UNCHANGED thrownAt

\* An exception nothing catches: no output, exit code 1.
uncaught ==
  /\ pc' = "crashed"
  /\ exitCode' = 1
  /\ thrownAt' = pc
  /\ UNCHANGED <<output, emittedAt>>

\* --------------------------------------------------------------- the run
\* Lines 241-242: read stdin, choose cwd.
ReadInput ==
  /\ pc = "start"
  /\ \E read \in StdinValues :
       /\ stdin' = <<read>>
       /\ hookInput' = [isNull |-> ~read.parses, cwd |-> read.cwd,
                        transcript_path |-> read.transcript_path]
       /\ cwd' = IF read.parses /\ read.cwd # <<>> THEN read.cwd ELSE processCwd
  /\ pc' = "config"
  /\ UNCHANGED <<store, config, keywords, listsToCheck, sessionName, listIndex, allPending,
                 allInProgress, allCompleted, activeListId, output, exitCode, emittedAt,
                 thrownAt, loaded, transcriptRead, settings, transcript>>
  /\ UNCHANGED callVars
  /\ UNCHANGED cliVars

\* Line 244: getConfig(cwd).
LoadConfig ==
  /\ pc = "config"
  /\ \E src \in ConfigSources :
       LET got == getConfig(src.project, src.global, src.env)
       IN /\ settings' = <<src>>
          /\ IF got.threw
               THEN uncaught /\ UNCHANGED config
               ELSE /\ config' = got.config
                    /\ pc' = "enabled"
                    /\ UNCHANGED <<output, exitCode, emittedAt, thrownAt>>
  /\ UNCHANGED <<store, hookInput, cwd, keywords, listsToCheck, sessionName, listIndex,
                 allPending, allInProgress, allCompleted, activeListId, loaded,
                 transcriptRead, stdin, transcript>>
  /\ UNCHANGED callVars
  /\ UNCHANGED cliVars

\* Mutant: !config.enabled, which also takes an absent flag for disabled.
isDisabledFalsy(cfg) == cfg.enabled # "true"

\* config.enabled === false
isDisabled(cfg) == cfg.enabled = "false"

\* Lines 247-251: the enabled check, then the keywords.
CheckDisabled ==
  /\ pc = "enabled"
  /\ IF isDisabled(config)
       THEN approve("disabled") /\ UNCHANGED keywords
       ELSE /\ keywords' = IF config.keywords.t = "undefined" THEN DefaultKeywords
                           ELSE config.keywords
            /\ pc' = "resolve"
            /\ UNCHANGED <<output, exitCode, emittedAt, thrownAt>>
  /\ UNCHANGED <<store, hookInput, cwd, config, listsToCheck, sessionName, listIndex,
                 allPending, allInProgress, allCompleted, activeListId, loaded,
                 transcriptRead, stdin, settings, transcript>>
  /\ UNCHANGED callVars
  /\ UNCHANGED cliVars

\* Lines 253-277: listsToCheck.
ResolveLists ==
  /\ pc = "resolve"
  /\ LET got == resolveLists(store, config, keywords, cwd)
     IN IF got.threw
          THEN uncaught /\ UNCHANGED listsToCheck
          ELSE /\ listsToCheck' = got.lists
               /\ pc' = "empty"
               /\ UNCHANGED <<output, exitCode, emittedAt, thrownAt>>
  /\ UNCHANGED <<store, hookInput, cwd, config, keywords, sessionName, listIndex,
                 allPending, allInProgress, allCompleted, activeListId, loaded,
                 transcriptRead, stdin, settings, transcript>>
  /\ UNCHANGED callVars
  /\ UNCHANGED cliVars

\* Lines 279-282: nothing to check.
CheckEmpty ==
  /\ pc = "empty"
  /\ IF Len(listsToCheck) = 0
       THEN approve("empty")
       ELSE pc' = "session" /\ UNCHANGED <<output, exitCode, emittedAt, thrownAt>>
  /\ UNCHANGED <<store, hookInput, cwd, config, keywords, listsToCheck, sessionName,
                 listIndex, allPending, allInProgress, allCompleted, activeListId, loaded,
                 transcriptRead, stdin, settings, transcript>>
  /\ UNCHANGED callVars
  /\ UNCHANGED cliVars

\* Lines 284-288: the session name, when stdin named a transcript.
ExtractSession ==
  /\ pc = "session"
  /\ IF ~hookInput.isNull /\ hookInput.transcript_path # <<>>
       THEN \E file \in Transcripts :
              /\ transcript' = <<file>>
              /\ sessionName' = getSessionName(file)
              /\ transcriptRead' = TRUE
       ELSE UNCHANGED <<sessionName, transcriptRead, transcript>>
  /\ pc' = "gate"
  /\ UNCHANGED <<store, hookInput, cwd, config, keywords, listsToCheck, listIndex,
                 allPending, allInProgress, allCompleted, activeListId, output, exitCode,
                 emittedAt, thrownAt, loaded, stdin, settings>>
  /\ UNCHANGED callVars
  /\ UNCHANGED cliVars

\* Lines 290-311: the keyword check on the session, then the loop starts.
SessionGate ==
  /\ pc = "gate"
  /\ LET verdict == sessionGate(config, keywords, sessionName)
     IN IF verdict = "throw" THEN uncaught /\ UNCHANGED listIndex
        ELSE IF verdict = "approve" THEN approve("gate") /\ UNCHANGED listIndex
        ELSE /\ pc' = "collect"
             /\ listIndex' = 1
             /\ UNCHANGED <<output, exitCode, emittedAt, thrownAt>>
  /\ UNCHANGED <<store, hookInput, cwd, config, keywords, listsToCheck, sessionName,
                 allPending, allInProgress, allCompleted, activeListId, loaded,
                 transcriptRead, stdin, settings, transcript>>
  /\ UNCHANGED callVars
  /\ UNCHANGED cliVars

\* Mutant: the loop deletes the files of the completed tasks it has counted.
LoadListAndPrune ==
  /\ pc = "collect"
  /\ listIndex <= Len(listsToCheck)
  /\ LET listId == listsToCheck[listIndex]
         tasks == getTasksFromList(store, listId)
         pending == filterStatus(tasks, "pending")
         inProgress == filterStatus(tasks, "in_progress")
         completed == filterStatus(tasks, "completed")
     IN /\ loaded' = Append(loaded, listId)
        /\ store' = [store EXCEPT ![listId].files =
                       SelectSeq(store[listId].files, LAMBDA f : f # "completed")]
        /\ IF filterThrows(tasks)
             THEN /\ uncaught
                  /\ UNCHANGED <<listIndex, allPending, allInProgress, allCompleted,
                                 activeListId>>
             ELSE /\ activeListId' = IF Len(pending) > 0 \/ Len(inProgress) > 0
                                       THEN listId ELSE activeListId
                  /\ allPending' = allPending \o pending
                  /\ allInProgress' = allInProgress \o inProgress
                  /\ allCompleted' = allCompleted \o completed
                  /\ listIndex' = listIndex + 1
                  /\ UNCHANGED <<pc, output, exitCode, emittedAt, thrownAt>>
  /\ UNCHANGED <<hookInput, cwd, config, keywords, listsToCheck, sessionName,
                 transcriptRead, stdin, settings, transcript>>
  /\ UNCHANGED callVars
  /\ UNCHANGED cliVars

\* Mutant: activeListId keeps the first list that has work left.
LoadListKeepFirst ==
  /\ pc = "collect"
  /\ listIndex <= Len(listsToCheck)
  /\ LET listId == listsToCheck[listIndex]
         tasks == getTasksFromList(store, listId)
         pending == filterStatus(tasks, "pending")
         inProgress == filterStatus(tasks, "in_progress")
         completed == filterStatus(tasks, "completed")
     IN /\ loaded' = Append(loaded, listId)
        /\ IF filterThrows(tasks)
             THEN /\ uncaught
                  /\ UNCHANGED <<listIndex, allPending, allInProgress, allCompleted,
                                 activeListId>>
             ELSE /\ activeListId' = IF /\ (Len(pending) > 0 \/ Len(inProgress) > 0)
                                          /\ activeListId = <<>>
                                       THEN listId ELSE activeListId
                  /\ allPending' = allPending \o pending
                  /\ allInProgress' = allInProgress \o inProgress
                  /\ allCompleted' = allCompleted \o completed
                  /\ listIndex' = listIndex + 1
                  /\ UNCHANGED <<pc, output, exitCode, emittedAt, thrownAt>>
  /\ UNCHANGED <<store, hookInput, cwd, config, keywords, listsToCheck, sessionName,
                 transcriptRead, stdin, settings, transcript>>
  /\ UNCHANGED callVars
  /\ UNCHANGED cliVars

\* Lines 313-326: one iteration of the loop over listsToCheck.
LoadList ==
  /\ pc = "collect"
  /\ listIndex <= Len(listsToCheck)
  /\ LET listId == listsToCheck[listIndex]
         tasks == getTasksFromList(store, listId)
         pending == filterStatus(tasks, "pending")
         inProgress == filterStatus(tasks, "in_progress")
         completed == filterStatus(tasks, "completed")
     IN /\ loaded' = Append(loaded, listId)
        /\ IF filterThrows(tasks)
             THEN /\ uncaught
                  /\ UNCHANGED <<listIndex, allPending, allInProgress, allCompleted,
                                 activeListId>>
             ELSE /\ activeListId' = IF Len(pending) > 0 \/ Len(inProgress) > 0
                                       THEN listId ELSE activeListId
                  /\ allPending' = allPending \o pending
                  /\ allInProgress' = allInProgress \o inProgress
                  /\ allCompleted' = allCompleted \o completed
                  /\ listIndex' = listIndex + 1
                  /\ UNCHANGED <<pc, output, exitCode, emittedAt, thrownAt>>
  /\ UNCHANGED <<store, hookInput, cwd, config, keywords, listsToCheck, sessionName,
                 transcriptRead, stdin, settings, transcript>>
  /\ UNCHANGED callVars
  /\ UNCHANGED cliVars

\* Lines 328-372: block when tasks remain, else approve.
Decide ==
  /\ pc = "collect"
  /\ listIndex > Len(listsToCheck)
  /\ LET remainingCount == Len(allPending) + Len(allInProgress)
     IN IF remainingCount > 0
          THEN block("final", blockReason(allPending, allInProgress, allCompleted,
                                          activeListId))
          ELSE approve("final")
  /\ UNCHANGED <<store, hookInput, cwd, config, keywords, listsToCheck, sessionName,
                 listIndex, allPending, allInProgress, allCompleted, activeListId, loaded,
                 transcriptRead, stdin, settings, transcript>>
  /\ UNCHANGED callVars
  /\ UNCHANGED cliVars

Next ==
  \/ ReadInput
  \/ LoadConfig
  \/ CheckDisabled
  \/ ResolveLists
  \/ CheckEmpty
  \/ ExtractSession
  \/ SessionGate
  \/ LoadList
  \/ Decide

Spec == Init /\ [][Next]_vars

\* Lines 240-373: run is straight-line code with one loop; until it has
\* exited or thrown it moves on, to another label or to the next list.
Advance ==
  /\ pc \notin {"done", "crashed"}
  /\ pc' \in {"config", "enabled", "resolve", "empty", "session", "gate", "collect",
              "done", "crashed"}
  /\ listIndex' \in {listIndex, listIndex + 1}

\* One invocation of run, which runs on until it has exited or thrown.
SpecLive == Init /\ [][Next]_vars /\ WF_<<pc, listIndex>>(Advance)

\* run against a task store with a backlog.
InitBacklog ==
  /\ store \in BacklogStores
  /\ RunEntered
  /\ NoCommandRun
  /\ NoCall

SpecBacklog == InitBacklog /\ [][Next]_vars

\* ------------------------------------------------ repeated stop attempts
\* The task stores of a session that is stopped again and again: proj-dev
\* has work left, or is done, or holds a file whose content is null; proj-x
\* is missing or holds a pending task, alone or next to a file that does not
\* parse.
RepeatStores ==
  {[n \in AllNames |->
      IF n = ProjDev THEN d1 ELSE IF n = ProjX THEN d2
      ELSE IF n = ZetaDev THEN Dir(<<"pending">>) ELSE Dir(<<"in_progress">>)] :
     d1 \in {Dir(<<"in_progress", "pending">>), Dir(<<"completed">>),
             Dir(<<"pending", "null">>)},
     d2 \in {MissingDir, Dir(<<"pending">>), Dir(<<"malformed", "pending">>)}}

InitRepeat ==
  /\ store \in RepeatStores
  /\ RunEntered
  /\ NoCommandRun
  /\ NoCall

\* Between the attempts of one session stdin, the settings files, the
\* environment and the transcript stay as they were first read.
SameSession ==
  /\ stdin # <<>> => stdin' = stdin
  /\ settings # <<>> => settings' = settings
  /\ transcript # <<>> => transcript' = transcript

\* Lines 376-378: the Stop hook fires again and run is entered anew.  After
\* a Block it fires once fewer tasks remain in the lists that run checked.
Reinvoke ==
  /\ pc \in {"done", "crashed"}
  /\ (Len(output) = 1 /\ output[1].decision = "block") =>
       LET tasksOf(l) == getTasksFromList(store, l)
           left == {<<k, n>> \in (1..Len(listsToCheck)) \X (1..MaxPending) :
                      /\ n <= Len(tasksOf(listsToCheck[k]))
                      /\ ~tasksOf(listsToCheck[k])[n].isNull
                      /\ tasksOf(listsToCheck[k])[n].status \in {"pending", "in_progress"}}
       IN Cardinality(left) < Len(allPending) + Len(allInProgress)
  /\ pc' = "start"
  /\ hookInput' = [isNull |-> TRUE, cwd |-> <<>>, transcript_path |-> <<>>]
  /\ cwd' = <<>>
  /\ config' = NoConfig
  /\ keywords' = [t |-> "undefined", v |-> <<>>]
  /\ listsToCheck' = <<>>
  /\ sessionName' = NullTitle
  /\ listIndex' = 0
  /\ allPending' = <<>>
  /\ allInProgress' = <<>>
  /\ allCompleted' = <<>>
  /\ activeListId' = <<>>
  /\ output' = <<>>
  /\ exitCode' = -1
  /\ emittedAt' = "none"
  /\ thrownAt' = "none"
  /\ loaded' = <<>>
  /\ transcriptRead' = FALSE
  /\ UNCHANGED <<store, stdin, settings, transcript>>
  /\ UNCHANGED callVars
  /\ UNCHANGED cliVars

\* Lines 349-355, step 5 of the prompt: between two attempts a pending or
\* in-progress task of a checked list is marked completed.
CompleteTask ==
  /\ pc \in {"done", "crashed"}
  /\ \E k \in 1..Len(listsToCheck) :
       \E n \in 1..Len(store[listsToCheck[k]].files) :
         /\ store[listsToCheck[k]].files[n] \in {"pending", "in_progress"}
         /\ store' = [store EXCEPT ![listsToCheck[k]].files[n] = "completed"]
  /\ UNCHANGED <<pc, hookInput, cwd, config, keywords, listsToCheck, sessionName,
                 listIndex, allPending, allInProgress, allCompleted, activeListId, output,
                 exitCode, emittedAt, thrownAt, loaded, transcriptRead, stdin, settings,
                 transcript>>
  /\ UNCHANGED callVars
  /\ UNCHANGED cliVars

NextRepeat ==
  \/ Next /\ SameSession
  \/ Reinvoke
  \/ CompleteTask

\* run, once entered, runs to its end; after a Block the work goes on and
\* the stop is attempted again.
SpecRepeat ==
  /\ InitRepeat
  /\ [][NextRepeat]_vars
  /\ WF_<<pc, listIndex>>(Advance)
  /\ WF_vars(Len(output) = 1 /\ output[1].decision = "block" /\ CompleteTask)
  /\ WF_vars(Len(output) = 1 /\ output[1].decision = "block" /\ Reinvoke)

\* ------------------------------------------- check-tasks.ts: main
\* main takes everything from the environment.  Its variables are those of
\* run: pc, hookInput, sessionName, keywords, the totals, output and exit
\* code; config.taskListId holds its taskListId and settings the environment
\* it met.
MainEnvs ==
  EnvValues
  \cup {[taskListId |-> t, keywordsSet |-> FALSE, keywords |-> <<>>, disabled |-> <<>>] :
          t \in {ProjDev, ProjX}}
  \cup {[taskListId |-> ProjDev, keywordsSet |-> TRUE, keywords |-> k, disabled |-> <<>>] :
          k \in {<<>>, <<",">>, <<"x">>}}

\* (process.env.CHECK_TASKS_KEYWORDS || "dev").split(",").map(trim, lower).filter(Boolean)
mainKeywords(env) ==
  LET raw == IF env.keywordsSet /\ env.keywords # <<>> THEN env.keywords ELSE Dev
      parts == split(raw, ",")
  IN filterBoolean([i \in 1..Len(parts) |-> toLowerCase(trim(parts[i]))])

\* sessionName || taskListId || ""
nameToCheck(name, taskListId) ==
  IF name # NullTitle THEN name ELSE [t |-> "string", v |-> taskListId]

\* keywords.some((keyword) => nameToCheck.toLowerCase().includes(keyword))
matchesKeyword(kws, name, taskListId) ==
  \E n \in 1..Len(kws) : includes(toLowerCase(nameToCheck(name, taskListId).v), kws[n])

InitMain ==
  /\ store \in Stores
  /\ pc = "main"
  /\ NothingRead
  /\ NoCommandRun
  /\ NoCall

\* Lines 94-103: disabled, or no task list configured.
MainCheckEnv ==
  /\ pc = "main"
  /\ \E e \in MainEnvs :
       /\ settings' = <<[project |-> MissingFile, global |-> MissingFile, env |-> e]>>
       /\ IF e.disabled = <<"1">> THEN approve("disabled") /\ UNCHANGED config
          ELSE IF e.taskListId = <<>> THEN approve("nolist") /\ UNCHANGED config
          ELSE /\ config' = [NoConfig EXCEPT !.taskListId = e.taskListId]
               /\ pc' = "mainInput"
               /\ UNCHANGED <<output, exitCode, emittedAt, thrownAt>>
  /\ UNCHANGED <<store, hookInput, cwd, keywords, listsToCheck, sessionName, listIndex,
                 allPending, allInProgress, allCompleted, activeListId, loaded,
                 transcriptRead, stdin, transcript>>
  /\ UNCHANGED callVars
  /\ UNCHANGED cliVars

\* Lines 106-112: stdin, and the session name when it names a transcript.
MainReadInput ==
  /\ pc = "mainInput"
  /\ \E read \in StdinValues :
       /\ stdin' = <<read>>
       /\ hookInput' = [isNull |-> ~read.parses, cwd |-> read.cwd,
                        transcript_path |-> read.transcript_path]
       /\ IF read.parses /\ read.transcript_path # <<>>
            THEN \E file \in Transcripts :
                   /\ transcript' = <<file>>
                   /\ sessionName' = getSessionName(file)
                   /\ transcriptRead' = TRUE
            ELSE UNCHANGED <<sessionName, transcriptRead, transcript>>
  /\ pc' = "mainKeyword"
  /\ UNCHANGED <<store, cwd, config, keywords, listsToCheck, listIndex, allPending,
                 allInProgress, allCompleted, activeListId, output, exitCode, emittedAt,
                 thrownAt, loaded, settings>>
  /\ UNCHANGED callVars
  /\ UNCHANGED cliVars

\* Lines 115-131: the keyword step.  toLowerCase of a session name that is
\* not a string throws, once there is a keyword to look for.
MainKeyword ==
  /\ pc = "mainKeyword"
  /\ LET kws == mainKeywords(settings[1].env)
     IN /\ keywords' = [t |-> "array", v |-> kws]
        /\ IF kws # <<>> /\ nameToCheck(sessionName, config.taskListId).t # "string"
             THEN uncaught
           ELSE IF ~matchesKeyword(kws, sessionName, config.taskListId)
             THEN approve("keyword")
           ELSE /\ pc' = "mainTasks"
                /\ UNCHANGED <<output, exitCode, emittedAt, thrownAt>>
  /\ UNCHANGED <<store, hookInput, cwd, config, listsToCheck, sessionName, listIndex,
                 allPending, allInProgress, allCompleted, activeListId, loaded,
                 transcriptRead, stdin, settings, transcript>>
  /\ UNCHANGED callVars
  /\ UNCHANGED cliVars

\* Lines 133-189: the task files of the list, read with no handler around
\* readdirSync, JSON.parse and t.status; the prompt names no list.
MainTasks ==
  /\ pc = "mainTasks"
  /\ loaded' = Append(loaded, config.taskListId)
  /\ LET dir == store[config.taskListId]
         idx == SelectSeq([n \in 1..Len(dir.files) |-> n],
                          LAMBDA n : dir.files[n] # "notjson")
         tasks == [k \in 1..Len(idx) |->
                     TaskOf(config.taskListId, idx[k], dir.files[idx[k]])]
         pending == filterStatus(tasks, "pending")
         inProgress == filterStatus(tasks, "in_progress")
         completed == filterStatus(tasks, "completed")
     IN IF dir.kind = "missing"
          THEN approve("nodir") /\ UNCHANGED <<allPending, allInProgress, allCompleted>>
        ELSE IF dir.kind = "unreadable"
          THEN uncaught /\ UNCHANGED <<allPending, allInProgress, allCompleted>>
        ELSE IF Len(idx) = 0
          THEN approve("nofiles") /\ UNCHANGED <<allPending, allInProgress, allCompleted>>
        ELSE IF \/ \E k \in 1..Len(idx) : dir.files[idx[k]] = "malformed"
                \/ filterThrows(tasks)
          THEN uncaught /\ UNCHANGED <<allPending, allInProgress, allCompleted>>
        ELSE /\ allPending' = pending
             /\ allInProgress' = inProgress
             /\ allCompleted' = completed
             /\ IF Len(pending) + Len(inProgress) > 0
                  THEN block("final", blockReason(pending, inProgress, completed, <<>>))
                  ELSE approve("final")
  /\ UNCHANGED <<store, hookInput, cwd, config, keywords, listsToCheck, sessionName,
                 listIndex, activeListId, transcriptRead, stdin, settings, transcript>>
  /\ UNCHANGED callVars
  /\ UNCHANGED cliVars

NextMain ==
  \/ MainCheckEnv
  \/ MainReadInput
  \/ MainKeyword
  \/ MainTasks

SpecMain == InitMain /\ [][NextMain]_vars

\* ---------------------------------------------------- cli.ts: installer
\* A parsed settings.json, as far as the installer looks at it. A key that
\* may be absent holds <<>> when absent and <<value>> when present.
\*   settings: [hooks, checkTasksConfig, model]   (model: any other key)
\*   hooks:    [Stop, PreToolUse], each an array of hook groups
\*   group:    [matcher, hooks], hooks an array of entries
\*   entry:    [type, command, timeout]
PACKAGE_NAME ==
  <<"@","h","a","s","n","a","x","y","z","/","h","o","o","k","-","c","h","e","c","k",
    "t","a","s","k","s">>

\* `bunx ${PACKAGE_NAME}@latest run`
getHookCommand ==
  <<"b","u","n","x"," ">> \o PACKAGE_NAME \o <<"@","l","a","t","e","s","t"," ","r","u","n">>

\* readSettings of cli.ts: {} for a missing or unparseable file, else the
\* parsed value, which is null for the file "null".
readSettingsCli(file) ==
  IF file.kind = "object" THEN [isNull |-> FALSE, value |-> file.value]
  ELSE [isNull |-> file.kind = "null", value |-> NoSettings]

\* h.command?.includes(PACKAGE_NAME)
commandIncludesPackage(h) == h.command # <<>> /\ includes(h.command[1], PACKAGE_NAME)

\* Mutant: only the first Stop group is searched.
hookExistsFirstGroup(s) ==
  IF s.hooks = <<>> THEN FALSE
  ELSE IF s.hooks[1].Stop = <<>> THEN FALSE
  ELSE LET stopHooks == s.hooks[1].Stop[1]
       IN /\ Len(stopHooks) > 0
          /\ stopHooks[1].hooks # <<>>
          /\ \E h \in 1..Len(stopHooks[1].hooks[1]) :
               commandIncludesPackage(stopHooks[1].hooks[1][h])

hookExists(s) ==
  IF s.hooks = <<>> THEN FALSE
  ELSE IF s.hooks[1].Stop = <<>> THEN FALSE
  ELSE LET stopHooks == s.hooks[1].Stop[1]
       IN \E g \in 1..Len(stopHooks) :
            /\ stopHooks[g].hooks # <<>>
            /\ \E h \in 1..Len(stopHooks[g].hooks[1]) :
                 commandIncludesPackage(stopHooks[g].hooks[1][h])

\* getConfig of cli.ts: settings[CONFIG_KEY] || {}
getConfigCli(s) == IF s.checkTasksConfig = <<>> THEN NoConfig ELSE s.checkTasksConfig[1]

setConfig(s, cfg) == [s EXCEPT !.checkTasksConfig = <<cfg>>]

addHook(s) ==
  LET hookConfig == [type |-> "command", command |-> <<getHookCommand>>, timeout |-> <<120>>]
      newGroup == [matcher |-> <<>>, hooks |-> << <<hookConfig>> >>]
      hooks == IF s.hooks = <<>> THEN [Stop |-> <<>>, PreToolUse |-> <<>>] ELSE s.hooks[1]
      stop == IF hooks.Stop = <<>> THEN <<newGroup>>
              ELSE LET stopHooks == hooks.Stop[1]
                   IN IF Len(stopHooks) > 0 /\ stopHooks[1].hooks # <<>>
                        THEN [stopHooks EXCEPT
                                ![1].hooks = << stopHooks[1].hooks[1] \o <<hookConfig>> >>]
                        ELSE Append(stopHooks, newGroup)
  IN [s EXCEPT !.hooks = <<[hooks EXCEPT !.Stop = <<stop>>]>>]

\* Line 148: the entries of a group with the package's filtered out; a group
\* without a hooks array is left as it is.
withoutPackage(group) ==
  IF group.hooks = <<>> THEN group
  ELSE [group EXCEPT
          !.hooks = << SelectSeq(group.hooks[1], LAMBDA h : ~commandIncludesPackage(h)) >>]

removeHook(s) ==
  IF s.hooks = <<>> THEN s
  ELSE IF s.hooks[1].Stop = <<>> THEN s
  ELSE LET stopHooks == s.hooks[1].Stop[1]
           filtered == [g \in 1..Len(stopHooks) |-> withoutPackage(stopHooks[g])]
           kept == SelectSeq(filtered, LAMBDA g : g.hooks # <<>> /\ Len(g.hooks[1]) > 0)
           stop == IF Len(kept) = 0 THEN <<>> ELSE <<kept>>
       IN [s EXCEPT !.hooks = <<[s.hooks[1] EXCEPT !.Stop = stop]>>,
                    !.checkTasksConfig = <<>>]

\* split(",").map((k) => k.trim().toLowerCase()).filter(Boolean)
parseKeywords(s) ==
  LET parts == split(s, ",")
  IN filterBoolean([i \in 1..Len(parts) |-> toLowerCase(trim(parts[i]))])

\* parseInt(s, 10) of an unsigned answer: the value of its leading digits,
\* -1 (for NaN) when it has none.
DecimalDigits == <<"0","1","2","3","4","5","6","7","8","9">>
RECURSIVE parseDigits(_, _, _)
parseDigits(s, i, acc) ==
  IF i > Len(s) \/ s[i] \notin SeqToSet(DecimalDigits) THEN acc
  ELSE parseDigits(s, i + 1,
                   10 * (IF acc < 0 THEN 0 ELSE acc)
                     + (CHOOSE d \in 0..9 : DecimalDigits[d + 1] = s[i]))
parseInt(s) == parseDigits(s, 1, -1)

\* config.keywords / existingConfig.keywords as a condition
keywordsTruthy(k) == k.t = "array" \/ (k.t = "string" /\ k.v # << <<>> >>)

\* promptForConfig, given the lists it offers and the two answers typed
\* (prompt returns them trimmed).
promptForConfig(existingConfig, availableLists, listAnswer, keywordsAnswer) ==
  LET listInput == trim(listAnswer)
      keywordsInput == trim(keywordsAnswer)
      num == parseInt(listInput)
      taskListId ==
        IF listInput # <<>>
          THEN IF num > 0 /\ num <= Len(availableLists) THEN availableLists[num]
               ELSE listInput
          ELSE existingConfig.taskListId
      kws ==
        IF keywordsInput # <<>> THEN [t |-> "array", v |-> parseKeywords(keywordsInput)]
        ELSE IF ~keywordsTruthy(existingConfig.keywords)
               THEN [t |-> "array", v |-> <<Dev>>]
               ELSE existingConfig.keywords
  IN [taskListId |-> taskListId, keywords |-> kws, enabled |-> "true"]

\* Lines 389-396: the configuration install writes without prompting.
nonInteractiveConfig(existingConfig, options) ==
  [taskListId |-> IF options.taskListId # <<>> THEN options.taskListId
                  ELSE existingConfig.taskListId,
   keywords |-> IF options.keywords.t # "undefined" THEN options.keywords
                ELSE IF keywordsTruthy(existingConfig.keywords)
                       THEN existingConfig.keywords
                       ELSE [t |-> "array", v |-> <<Dev>>],
   enabled |-> "true"]

\* The settings files the installer starts from: none of them has a Stop
\* hook entry of this package.
HooksValues ==
  LET lint == [type |-> "command", command |-> << <<"l","i","n","t">> >>, timeout |-> <<>>]
      noCommand == [type |-> "prompt", command |-> <<>>, timeout |-> <<>>]
      group(entries) == [matcher |-> <<>>, hooks |-> <<entries>>]
      bareGroup == [matcher |-> << <<"*">> >>, hooks |-> <<>>]
      stopArrays == { <<>>,
                      <<group(<<lint>>)>>,
                      <<group(<<lint, noCommand>>)>>,
                      <<bareGroup>>,
                      <<group(<<>>)>>,
                      <<group(<<lint>>), group(<<>>)>>,
                      <<group(<<lint>>), bareGroup>> }
  IN {<<>>}
     \cup {<<[Stop |-> <<>>, PreToolUse |-> << <<group(<<lint>>)>> >>]>>}
     \cup {<<[Stop |-> <<a>>, PreToolUse |-> <<>>]>> : a \in stopArrays}
InitialSettingsFiles ==
  {FileOf(k, NoSettings) : k \in {"missing", "malformed", "null"}}
  \cup {FileOf("object", [hooks |-> h, checkTasksConfig |-> cfg, model |-> m]) :
          h \in HooksValues,
          cfg \in {<<>>,
                   <<[taskListId |-> ProjDev,
                      keywords |-> [t |-> "array", v |-> << <<"q","a">> >>],
                      enabled |-> "false"]>>,
                   <<[taskListId |-> <<>>, keywords |-> [t |-> "undefined", v |-> <<>>],
                      enabled |-> "undefined"]>>},
          m \in {<<>>, << <<"o","p","u","s">> >>}}

\* The command lines, and the answers typed at the prompts together with
\* the lists promptForConfig offers.
InstallOptions ==
  [yes : BOOLEAN,
   taskListId : {<<>>, ProjX},
   keywords : {[t |-> "undefined", v |-> <<>>],
               [t |-> "array", v |-> parseKeywords(<<" ","X",",",",","d","e","v">>)]}]
PromptAnswers ==
  [update : {<<"y">>, <<"Y">>, <<"n">>, <<>>},
   availableLists : {<<>>, <<ProjDev>>},
   list : {<<>>, <<"1">>, <<" ","p","r","o","j","-","x">>},
   keywords : {<<>>, <<"q","a",","," ","D","e","v">>}]

InitCli ==
  /\ store = EmptyStore
  /\ pc = "cli"
  /\ NothingRead
  /\ NoCall
  /\ settingsFile \in InitialSettingsFiles
  /\ lastCommand = NoCommand

\* writeSettings: the file then parses to the value written.
writeSettings(name, value) ==
  /\ settingsFile' = FileOf("object", value)
  /\ lastCommand' = [name |-> name, wrote |-> TRUE, threw |-> FALSE]

\* The command returns, or rejects, before it writes.
noWrite(name, threw) ==
  /\ settingsFile' = settingsFile
  /\ lastCommand' = [name |-> name, wrote |-> FALSE, threw |-> threw]

\* install, lines 345-413. hasTarget: a target was resolved (the path
\* exists, the choice at the prompt was valid).
Install ==
  /\ pc = "cli"
  /\ \E hasTarget \in BOOLEAN, options \in InstallOptions, typed \in PromptAnswers :
       LET read == readSettingsCli(settingsFile)
           exists == hookExists(read.value)
           settings1 == IF exists THEN read.value ELSE addHook(read.value)
           existingConfig == getConfigCli(settings1)
           cfg == IF \/ options.yes
                     \/ options.taskListId # <<>>
                     \/ options.keywords.t # "undefined"
                    THEN nonInteractiveConfig(existingConfig, options)
                    ELSE promptForConfig(existingConfig, typed.availableLists, typed.list,
                                         typed.keywords)
       IN IF ~hasTarget THEN noWrite("install", FALSE)
          ELSE IF read.isNull THEN noWrite("install", TRUE)
          ELSE IF exists /\ ~options.yes /\ toLowerCase(trim(typed.update)) # <<"y">>
                 THEN noWrite("install", FALSE)
          ELSE writeSettings("install", setConfig(settings1, cfg))
  /\ UNCHANGED runVars
  /\ UNCHANGED callVars

\* configure, lines 415-451.
Configure ==
  /\ pc = "cli"
  /\ \E hasTarget \in BOOLEAN, typed \in PromptAnswers :
       LET read == readSettingsCli(settingsFile)
           cfg == promptForConfig(getConfigCli(read.value), typed.availableLists,
                                  typed.list, typed.keywords)
       IN IF ~hasTarget \/ settingsFile.kind = "missing" THEN noWrite("config", FALSE)
          ELSE IF read.isNull THEN noWrite("config", TRUE)
          ELSE IF ~hookExists(read.value) THEN noWrite("config", FALSE)
          ELSE writeSettings("config", setConfig(read.value, cfg))
  /\ UNCHANGED runVars
  /\ UNCHANGED callVars

\* uninstall, lines 453-477.
Uninstall ==
  /\ pc = "cli"
  /\ \E hasTarget \in BOOLEAN :
       LET read == readSettingsCli(settingsFile)
       IN IF ~hasTarget \/ settingsFile.kind = "missing" THEN noWrite("uninstall", FALSE)
          ELSE IF read.isNull THEN noWrite("uninstall", TRUE)
          ELSE IF ~hookExists(read.value) THEN noWrite("uninstall", FALSE)
          ELSE writeSettings("uninstall", removeHook(read.value))
  /\ UNCHANGED runVars
  /\ UNCHANGED callVars

NextCli ==
  \/ Install
  \/ Configure
  \/ Uninstall

SpecCli == InitCli /\ [][NextCli]_vars

\* ------------------------------------------- run as a function of the store
\* Lines 307-326: the loop over lists from position n on, acc being the
\* totals so far.
RECURSIVE collectFrom(_, _, _, _)
collectFrom(st, lists, n, acc) ==
  IF n > Len(lists) THEN acc
  ELSE LET tasks == getTasksFromList(st, lists[n])
           pending == filterStatus(tasks, "pending")
           inProgress == filterStatus(tasks, "in_progress")
           completed == filterStatus(tasks, "completed")
       IN IF filterThrows(tasks) THEN [acc EXCEPT !.threw = TRUE]
          ELSE collectFrom(st, lists, n + 1,
                 [threw |-> FALSE,
                  pending |-> acc.pending \o pending,
                  inProgress |-> acc.inProgress \o inProgress,
                  completed |-> acc.completed \o completed,
                  active |-> IF Len(pending) > 0 \/ Len(inProgress) > 0
                               THEN lists[n] ELSE acc.active])

\* Lines 247-372: what run writes to stdout for config cfg, keywords k,
\* working directory dir and session name name when the task store is st.
outputOf(st, cfg, k, dir, name) ==
  IF isDisabled(cfg) THEN <<[decision |-> "approve", reason |-> NoReason]>>
  ELSE LET resolved == resolveLists(st, cfg, k, dir)
       IN IF resolved.threw THEN <<>>
          ELSE IF Len(resolved.lists) = 0
            THEN <<[decision |-> "approve", reason |-> NoReason]>>
          ELSE LET verdict == sessionGate(cfg, k, name)
               IN IF verdict = "throw" THEN <<>>
                  ELSE IF verdict = "approve"
                    THEN <<[decision |-> "approve", reason |-> NoReason]>>
                  ELSE LET got == collectFrom(st, resolved.lists, 1,
                                    [threw |-> FALSE, pending |-> <<>>,
                                     inProgress |-> <<>>, completed |-> <<>>,
                                     active |-> <<>>])
                       IN IF got.threw THEN <<>>
                          ELSE IF Len(got.pending) + Len(got.inProgress) > 0
                            THEN <<[decision |-> "block",
                                    reason |-> blockReason(got.pending, got.inProgress,
                                                           got.completed, got.active)]>>
                          ELSE <<[decision |-> "approve", reason |-> NoReason]>>

\* Lines 241-372: what run writes to stdout when stdin holds read, the
\* settings files and the environment are src, the transcript file is file
\* and the task store is st.
runOutput(st, read, src, file) ==
  LET dir == IF read.parses /\ read.cwd # <<>> THEN read.cwd ELSE processCwd
      got == getConfig(src.project, src.global, src.env)
  IN IF got.threw THEN <<>>
     ELSE LET k == IF got.config.keywords.t = "undefined" THEN DefaultKeywords
                   ELSE got.config.keywords
              name == IF read.parses /\ read.transcript_path # <<>>
                        THEN getSessionName(file) ELSE NullTitle
          IN outputOf(st, got.config, k, dir, name)

\* ------------------------- the matcher and its identifiers on their own
\* The working directories of the calls.
AlumiaPath ==
  <<"/","U","s","e","r","s","/","a","l","i","c","e","/","W","o","r","k","s","p","a","c",
    "e","/","h","a","s","n","a","s","t","u","d","i","o","/","h","a","s","n","a","s","t",
    "u","d","i","o","-","a","l","u","m","i","a","/","p","l","a","t","f","o","r","m","/",
    "p","l","a","t","f","o","r","m","-","a","l","u","m","i","a">>
\* segments home, bob, Workspace, Acme, SRC, ab, acme-web: an empty segment, a
\* generic one in upper case, a short one, a trailing slash
CwdNested ==
  <<"/","h","o","m","e","/","b","o","b","/","W","o","r","k","s","p","a","c","e","/","A",
    "c","m","e","/","/","S","R","C","/","a","b","/","a","c","m","e","-","w","e","b","/">>
\* a segment in canonical-identifier form below the project directory
CwdSession ==
  <<"/","u","/","a","/","w","/","a","c","m","e","/","a","1","b","2","c","3","d","4","-",
    "e","5","f","6","-","7","8","9","0","-","a","b","c","d","-","1","2","3","4","5","6",
    "7","8","9","0","a","b">>
\* the same directory name twice
CwdTwice == <<"/","u","/","a","/","w","/","a","c","m","e","/","a","c","m","e">>
CwdRoot == <<"/">>

CallCwds == {AlumiaPath, CwdProject, CwdShallow, CwdNested, CwdSession, CwdTwice, CwdRoot}

\* The names of the directories under ~/.claude/tasks in the calls.
Proj == <<"p","r","o","j">>
ProjUpperX == <<"P","R","O","J","-","X">>
Acme == <<"a","c","m","e">>
AcmeDev == <<"a","c","m","e","-","d","e","v">>
AcmeWebDev == <<"A","c","m","e","-","W","e","b","-","d","e","v">>
MyAcmeProj == <<"m","y","-","a","c","m","e","-","p","r","o","j">>
ProjDevNoDash == <<"p","r","o","j","d","e","v">>
PlatformAlumiaDev ==
  <<"p","l","a","t","f","o","r","m","-","a","l","u","m","i","a","-","d","e","v">>
FooDev == <<"f","o","o","-","d","e","v">>
Hasnastudio == <<"h","a","s","n","a","s","t","u","d","i","o">>

CallNames ==
  {Proj, ProjDev, ProjUpperX, Acme, AcmeDev, AcmeWebDev, MyAcmeProj, ProjDevNoDash,
   PlatformAlumiaDev, FooDev, Hasnastudio, UuidList}

\* The listings readdir may give: up to MaxLists names, no name twice, in any
\* order.
Listings ==
  UNION {{l \in [1..n -> CallNames] : \A i, j \in 1..n : i # j => l[i] # l[j]} :
           n \in 0..MaxLists}

InitMatcher ==
  /\ store = EmptyStore
  /\ RunEntered
  /\ NoCommandRun
  /\ NoConfigCall
  /\ NoSessionCall
  /\ argCwd \in CallCwds
  /\ argLists \in Listings
  /\ retIdentifiers = <<>>
  /\ retLists = <<>>
  /\ called = <<>>

\* getProjectIdentifiers(argCwd)
CallGetProjectIdentifiers ==
  /\ called = <<>>
  /\ retIdentifiers' = getProjectIdentifiers(argCwd)
  /\ called' = <<"getProjectIdentifiers">>
  /\ UNCHANGED <<argCwd, argLists, retLists, argSettings, retConfig, argTranscript, retTitle>>
  /\ UNCHANGED runVars
  /\ UNCHANGED cliVars

\* getProjectTaskLists(argCwd), getAllTaskLists returning argLists
CallGetProjectTaskLists ==
  /\ called = <<"getProjectIdentifiers">>
  /\ retLists' = projectTaskLists(argLists, argCwd)
  /\ called' = Append(called, "getProjectTaskLists")
  /\ UNCHANGED <<argCwd, argLists, retIdentifiers, argSettings, retConfig, argTranscript,
                 retTitle>>
  /\ UNCHANGED runVars
  /\ UNCHANGED cliVars

NextMatcher ==
  \/ CallGetProjectIdentifiers
  \/ CallGetProjectTaskLists

SpecMatcher == InitMatcher /\ [][NextMatcher]_vars

\* ------------------------------------------------- getConfig on its own
\* A settings file as getConfig may find it at either path.
SettingsFiles ==
  {MissingFile, MalformedFile, NullFile, PlainFile} \cup {ObjectFile(c) : c \in SettingsConfigs}

InitGetConfig ==
  /\ store = EmptyStore
  /\ RunEntered
  /\ NoCommandRun
  /\ NoMatcherCall
  /\ NoSessionCall
  /\ argSettings \in [project : SettingsFiles, global : SettingsFiles, env : EnvValues]
  /\ retConfig = [threw |-> FALSE, config |-> NoConfig]
  /\ called = <<>>

\* getConfig(cwd), the files at the two paths and the environment being
\* argSettings.
CallGetConfig ==
  /\ called = <<>>
  /\ retConfig' = getConfig(argSettings.project, argSettings.global, argSettings.env)
  /\ called' = <<"getConfig">>
  /\ UNCHANGED <<argCwd, argLists, retIdentifiers, retLists, argSettings, argTranscript,
                 retTitle>>
  /\ UNCHANGED runVars
  /\ UNCHANGED cliVars

SpecGetConfig == InitGetConfig /\ [][CallGetConfig]_vars

\* -------------------------------------------- getSessionName on its own
\* The lines a transcript is made of in the calls: custom-title records with
\* a title, with an empty title, with a number for title and without the
\* field; a line that holds the marker twice and does not parse; a record of
\* another type that holds the marker and a customTitle field; a record
\* without the marker.
TranscriptLines ==
  { TitleLine([t |-> "string", v |-> <<"D","e","v"," ","r","u","n">>]),
    TitleLine([t |-> "string", v |-> <<"n","o","t","e","s">>]),
    TitleLine([t |-> "string", v |-> <<>>]),
    TitleLine([t |-> "number", v |-> <<"5">>]),
    TitleLine([t |-> "undefined", v |-> <<>>]),
    [markers |-> 2, parses |-> FALSE, type |-> "custom-title",
     customTitle |-> [t |-> "string", v |-> Dev]],
    [markers |-> 1, parses |-> TRUE, type |-> "user",
     customTitle |-> [t |-> "string", v |-> <<"q","a">>]],
    [markers |-> 0, parses |-> TRUE, type |-> "user",
     customTitle |-> [t |-> "undefined", v |-> <<>>]] }

TranscriptFiles ==
  { [exists |-> FALSE, readable |-> FALSE, lines |-> <<>>],
    [exists |-> TRUE, readable |-> FALSE, lines |-> <<>>] }
  \cup {[exists |-> TRUE, readable |-> TRUE, lines |-> l] :
          l \in UNION {[1..n -> TranscriptLines] : n \in 0..MaxLines}}

InitGetSessionName ==
  /\ store = EmptyStore
  /\ RunEntered
  /\ NoCommandRun
  /\ NoMatcherCall
  /\ NoConfigCall
  /\ argTranscript \in TranscriptFiles
  /\ retTitle = NullTitle
  /\ called = <<>>

\* getSessionName(transcriptPath), the file at the path being argTranscript
CallGetSessionName ==
  /\ called = <<>>
  /\ retTitle' = getSessionName(argTranscript)
  /\ called' = <<"getSessionName">>
  /\ UNCHANGED <<argCwd, argLists, retIdentifiers, retLists, argSettings, retConfig,
                 argTranscript>>
  /\ UNCHANGED runVars
  /\ UNCHANGED cliVars

SpecGetSessionName == InitGetSessionName /\ [][CallGetSessionName]_vars

\* ================================================================ claims
Terminal == {"done", "crashed"}

\* The enabled check has been passed or taken: config is the resolved one.
ConfigLoaded == pc \notin {"start", "config"} /\ thrownAt # "config"

\* Lines 253-277 have run: listsToCheck is the resolved list set.
ListsResolved ==
  /\ ConfigLoaded
  /\ pc \notin {"enabled", "resolve"}
  /\ thrownAt # "resolve"
  /\ emittedAt # "disabled"

Emitted(decision) == Len(output) = 1 /\ output[1].decision = decision

\* The pending and in-progress records the Task Store Reader yields for the
\* lists, summed.
RECURSIVE RemainingIn(_, _)
RemainingIn(st, lists) ==
  IF lists = <<>> THEN 0
  ELSE LET tasks == getTasksFromList(st, Head(lists))
       IN Cardinality({n \in 1..Len(tasks) :
                         ~tasks[n].isNull /\ tasks[n].status \in {"pending", "in_progress"}})
          + RemainingIn(st, Tail(lists))

\* name contains one of the keywords kws (a sequence of strings), ignoring case
ContainsKeyword(kws, name) ==
  \E n \in 1..Len(kws) :
    \E at \in 1..Len(name) :
      /\ at + Len(kws[n]) - 1 <= Len(name)
      /\ \A j \in 1..Len(kws[n]) :
           toLowerCase(<<name[at + j - 1]>>) = toLowerCase(<<kws[n][j]>>)

\* A session name was extracted and at least one keyword is configured.
GateInForce ==
  /\ sessionName.t = "string" /\ sessionName.v # <<>>
  /\ keywords.t = "array" /\ keywords.v # <<>>

\* The exit of lines 301-304: explicit list, and neither name has a keyword.
GateLetsStop ==
  /\ GateInForce
  /\ config.taskListId # <<>>
  /\ ~ContainsKeyword(keywords.v, sessionName.v)
  /\ ~ContainsKeyword(keywords.v, config.taskListId)

C2_ApproveWhenNothingRemains ==
  (pc \in Terminal /\ ListsResolved /\ Len(listsToCheck) > 0 /\ Len(loaded) > 0
     /\ RemainingIn(store, listsToCheck) = 0)
    => Emitted("approve")

\* C3: with enabled === false the only decision is Approve, taken at the
\* enabled check before any list or transcript is touched, whatever the
\* task store holds; with enabled absent or true that exit is never taken.
C3_DisabledApproves ==
  ConfigLoaded =>
    /\ (config.enabled = "false" /\ pc # "enabled")
         => /\ pc = "done" /\ Emitted("approve") /\ emittedAt = "disabled"
            /\ loaded = <<>> /\ ~transcriptRead
    /\ config.enabled \in {"undefined", "true"} => emittedAt # "disabled"

\* C3 witness: disabled, approved, while the configured list has work left.
C3_Witness ==
  /\ pc = "done" /\ config.enabled = "false" /\ Emitted("approve")
  /\ config.taskListId # <<>>
  /\ RemainingIn(store, <<config.taskListId>>) > 0

\* name belongs to the project of dir: not in canonical-identifier form, and
\* equal to an identifier of dir or beginning with one and "-", ignoring case.
InProject(name, dir) ==
  /\ ~uuidRegexTest(name)
  /\ \E id \in SeqToSet(getProjectIdentifiers(dir)) :
       \/ toLowerCase(name) = toLowerCase(id)
       \/ startsWith(toLowerCase(name), toLowerCase(id) \o <<"-">>)

StoredNames == {n \in AllNames : store[n].kind # "missing"}

C5_AlwaysADecision ==
  (pc \in Terminal /\ Len(loaded) > 0) => Len(output) = 1

\* C6: at most one decision is written; once one is written the process has
\* exited with code 0 and no step of run is enabled any more.
C6_OneDecisionThenStop ==
  /\ Len(output) <= 1
  /\ Len(output) = 1 =>
       /\ pc = "done" /\ exitCode = 0
       /\ output[1].decision \in {"approve", "block"}
       /\ ~ENABLED Next
  /\ exitCode = 0 => Len(output) = 1

\* C6 witness: the gate approved and the resolved lists were never loaded.
C6_Witness ==
  /\ pc = "done" /\ Emitted("approve") /\ emittedAt = "gate"
  /\ Len(listsToCheck) > 0 /\ loaded = <<>> /\ listIndex = 0

\* The gate has been passed or taken.
GatePassed ==
  \/ pc = "collect"
  \/ pc = "done" /\ emittedAt \in {"gate", "final"}
  \/ pc = "crashed" /\ thrownAt = "collect"

RECURSIVE KeywordSubSeq(_, _)
KeywordSubSeq(ranking, kws) ==
  IF ranking = <<>> THEN <<>>
  ELSE (IF ContainsKeyword(kws, Head(ranking)) THEN <<Head(ranking)>> ELSE <<>>)
       \o KeywordSubSeq(Tail(ranking), kws)

\* C8: in auto-detect mode with a non-empty project ranking R, the resolved
\* lists are the sub-sequence of R whose names contain a keyword when that is
\* not empty, and all of R otherwise; so they are never empty.
C8_KeywordFilterOrAll ==
  LET R == getProjectTaskLists(store, cwd)
      sub == KeywordSubSeq(R, keywords.v)
  IN (ListsResolved /\ config.taskListId = <<>> /\ R # <<>>)
       => /\ listsToCheck = IF sub # <<>> THEN sub ELSE R
          /\ listsToCheck # <<>>

\* C8 witness: two ranked lists, keywords configured, none in either name:
\* both lists are resolved.
C8_Witness ==
  LET R == getProjectTaskLists(store, cwd)
  IN /\ ListsResolved /\ config.taskListId = <<>>
     /\ Len(R) = 2 /\ keywords.v # <<>>
     /\ KeywordSubSeq(R, keywords.v) = <<>>
     /\ listsToCheck = R

\* What a stored directory outside the resolved set may be changed to.
VariantDirs == {UnreadableDir} \cup {Dir(f) : f \in UNION {[1..n -> FileKinds] : n \in 0..1}}

\* The stores that differ from the store in the tasks of one stored list
\* outside the resolved set.
StoreVariants ==
  {[store EXCEPT ![n] = d] :
     n \in {m \in StoredNames : m \notin SeqToSet(listsToCheck)}, d \in VariantDirs}

C10_ExplicitListOnly ==
  (ListsResolved /\ config.taskListId # <<>>)
    => /\ listsToCheck = <<config.taskListId>>
       /\ Len(loaded) <= 1
       /\ \A n \in 1..Len(loaded) : loaded[n] = config.taskListId
       /\ \A t \in SeqToSet(allPending \o allInProgress \o allCompleted) :
            t.subject.list = config.taskListId

\* C10 witness: an explicit list without a keyword in its name, the cwd in
\* no project, other lists stored: that list alone was loaded and counted.
C10_Witness ==
  /\ pc = "done" /\ config.taskListId = ProjX
  /\ ~ContainsKeyword(keywords.v, ProjX) /\ keywords.v # <<>>
  /\ cwd = CwdShallow
  /\ loaded = <<ProjX>>
  /\ Len(allPending) > 0

\* The settings file defines the config key.
DefinesKey(file) == file.kind = "object" /\ file.hasKey

\* C11 as claimed: getConfig returns the record of the first tier, project
\* settings then global settings, whose file defines the config key, whole and
\* with no field of another tier; a file that does not define the key passes
\* the call on to the next tier; the environment's record is returned only
\* when neither file defines the key.
C11_FirstDefiningTierWins ==
  called = <<"getConfig">> =>
    /\ ~retConfig.threw
    /\ retConfig.config =
         IF DefinesKey(argSettings.project) THEN argSettings.project.cfg
         ELSE IF DefinesKey(argSettings.global) THEN argSettings.global.cfg
         ELSE getConfig(MissingFile, MissingFile, argSettings.env).config

\* The task records the Task Store Reader yields for the lists, in
\* enumeration order: list order, then task order.
RECURSIVE Yielded(_, _)
Yielded(st, lists) ==
  IF lists = <<>> THEN <<>>
  ELSE getTasksFromList(st, Head(lists)) \o Yielded(st, Tail(lists))

HavingStatus(tasks, status) == SelectSeq(tasks, LAMBDA t : ~t.isNull /\ t.status = status)

\* C12: on Block the reason states pending + in_progress as the remaining
\* count and the aggregated pending, in-progress and completed totals; it
\* lists min(pending, 3) subjects, those of the first pending tasks in
\* enumeration order; the overflow note is there exactly when pending > 3 and
\* then states pending - 3.
C12_ReasonMatchesAggregate ==
  (pc = "done" /\ Emitted("block")) =>
    LET all == Yielded(store, listsToCheck)
        nPending == Len(HavingStatus(all, "pending"))
        nInProgress == Len(HavingStatus(all, "in_progress"))
        nCompleted == Len(HavingStatus(all, "completed"))
        reason == output[1].reason
    IN /\ reason.remainingCount = nPending + nInProgress
       /\ reason.pending = nPending
       /\ reason.inProgress = nInProgress
       /\ reason.completed = nCompleted
       /\ Len(reason.nextTasks) = IF nPending < 3 THEN nPending ELSE 3
       /\ \A k \in 1..Len(reason.nextTasks) :
            reason.nextTasks[k] = HavingStatus(all, "pending")[k].subject
       /\ (reason.more # 0) <=> (nPending > 3)
       /\ nPending > 3 => reason.more = nPending - 3

\* C12 witness: a Block over two lists with more than three pending tasks,
\* the first of them in the first list, an in-progress and a completed task.
C12_Witness ==
  /\ pc = "done" /\ Emitted("block")
  /\ Len(listsToCheck) = 2
  /\ output[1].reason.pending > 3 /\ output[1].reason.more > 0
  /\ output[1].reason.inProgress > 0 /\ output[1].reason.completed > 0
  /\ output[1].reason.nextTasks[1].list = listsToCheck[1]
  /\ output[1].reason.nextTasks[3].list = listsToCheck[2]

PlatformAlumia == <<"p","l","a","t","f","o","r","m","-","a","l","u","m","i","a">>
HasnastudioAlumia ==
  <<"h","a","s","n","a","s","t","u","d","i","o","-","a","l","u","m","i","a">>

\* C13 as claimed: for the path
\* /Users/alice/Workspace/hasnastudio/hasnastudio-alumia/platform/platform-alumia
\* getProjectIdentifiers returns platform-alumia, hasnastudio-alumia and
\* nothing else, hasnastudio being excluded.
C13_AlumiaTwoIdentifiers ==
  (called # <<>> /\ argCwd = AlumiaPath)
    => retIdentifiers = <<PlatformAlumia, HasnastudioAlumia>>

\* C13 amended: for that path getProjectIdentifiers returns platform-alumia,
\* hasnastudio-alumia, hasnastudio, in that order: hasnastudio, the fourth
\* segment, is kept; platform, Workspace, Users and alice are excluded.
C13_AlumiaThreeIdentifiers ==
  (called # <<>> /\ argCwd = AlumiaPath)
    => retIdentifiers = <<PlatformAlumia, HasnastudioAlumia, Hasnastudio>>

\* C13 witness: getProjectIdentifiers has returned for that path, and
\* hasnastudio is the last of its identifiers.
C13_Witness ==
  /\ called # <<>> /\ argCwd = AlumiaPath
  /\ Len(retIdentifiers) = 3 /\ retIdentifiers[3] = Hasnastudio

\* name is in canonical-identifier form: five groups of 8, 4, 4, 4 and 12
\* hexadecimal digits, of either case, with "-" between them.
CanonicalIdForm(name) ==
  LET groups == split(name, "-")
  IN /\ Len(groups) = 5
     /\ <<Len(groups[1]), Len(groups[2]), Len(groups[3]), Len(groups[4]), Len(groups[5])>>
          = <<8, 4, 4, 4, 12>>
     /\ \A g \in 1..5 : \A j \in 1..Len(groups[g]) :
          toLowerCase(<<groups[g][j]>>)[1] \in
            {"0","1","2","3","4","5","6","7","8","9","a","b","c","d","e","f"}

SameIgnoringCase(a, b) ==
  /\ Len(a) = Len(b)
  /\ \A j \in 1..Len(a) : toLowerCase(<<a[j]>>) = toLowerCase(<<b[j]>>)

\* name is id followed by "-" and anything, ignoring case
ExtendsIgnoringCase(name, id) ==
  /\ Len(name) > Len(id)
  /\ SameIgnoringCase(SubSeq(name, 1, Len(id)), id)
  /\ name[Len(id) + 1] = "-"

\* The stored names the matcher is to return for the identifiers ids.
ProjectNames(names, ids) ==
  {n \in names :
     /\ ~CanonicalIdForm(n)
     /\ \E k \in 1..Len(ids) : SameIgnoringCase(n, ids[k]) \/ ExtendsIgnoringCase(n, ids[k])}

\* C14: the matcher returns exactly the stored names that are not in
\* canonical-identifier form and that equal an identifier or begin with one
\* and "-", ignoring case; so no name in canonical-identifier form and no name
\* that has an identifier elsewhere; no name twice; and nothing when there are
\* no named lists or no identifiers.
C14_MatcherMembership ==
  Len(called) = 2 =>
    LET expected == ProjectNames(SeqToSet(argLists), retIdentifiers)
    IN /\ SeqToSet(retLists) = expected
       /\ Len(retLists) = Cardinality(expected)
       /\ \A k \in 1..Len(retLists) : ~CanonicalIdForm(retLists[k])
       /\ (retIdentifiers = <<>> \/ \A k \in 1..Len(argLists) : CanonicalIdForm(argLists[k]))
            => retLists = <<>>

\* C14 witness: the cwd has an identifier in canonical-identifier form and
\* the identifier acme; of a list named as that identifier, a list with acme
\* inside its name and acme-dev, only acme-dev is returned.
C14_Witness ==
  /\ Len(called) = 2
  /\ UuidList \in SeqToSet(retIdentifiers)
  /\ SeqToSet(argLists) = {UuidList, MyAcmeProj, AcmeDev}
  /\ retLists = <<AcmeDev>>

\* The score the claim gives a list name: the largest of (n - i) * 100 over
\* the identifiers at position i (from 0) it equals and (n - i) * 10 over those
\* it extends with "-", n being the number of identifiers; 0 without a match.
ClaimedScore(name, ids) ==
  LET n == Len(ids)
      scores ==
        {0} \cup {(n - i) * 100 : i \in {j \in 0..(n - 1) : SameIgnoringCase(name, ids[j + 1])}}
            \cup {(n - i) * 10 : i \in {j \in 0..(n - 1) : ExtendsIgnoringCase(name, ids[j + 1])}}
  IN CHOOSE top \in scores : \A x \in scores : top >= x

PositionIn(seq, e) == CHOOSE k \in 1..Len(seq) : seq[k] = e

\* C15: the matcher's output is in descending order of that score, and lists
\* of equal score are in the order of the original enumeration.
C15_RankedByScore ==
  Len(called) = 2 =>
    \A a, b \in 1..Len(retLists) :
      a < b =>
        LET sa == ClaimedScore(retLists[a], retIdentifiers)
            sb == ClaimedScore(retLists[b], retIdentifiers)
        IN \/ sa > sb
           \/ sa = sb /\ PositionIn(argLists, retLists[a]) < PositionIn(argLists, retLists[b])

\* C15 witness: two lists of equal score enumerated before one of higher
\* score; the higher one is returned first, the two others in their order.
C15_Witness ==
  /\ Len(called) = 2
  /\ argCwd = CwdProject
  /\ argLists = <<ProjUpperX, ProjDev, Proj>>
  /\ retLists = <<Proj, ProjUpperX, ProjDev>>

\* The positions, from 0 at the leaf, of the identifiers a list name matches.
MatchedAt(name, ids) ==
  {i \in 0..(Len(ids) - 1) :
     SameIgnoringCase(name, ids[i + 1]) \/ ExtendsIgnoringCase(name, ids[i + 1])}

\* C16 as claimed: in the ranking, a list matched through an identifier
\* closer to the leaf than every identifier another list matches comes before
\* that list; and a list equal to the leaf-most identifier comes before every
\* list matched by prefix only.
C16_LeafBeforeAncestor ==
  Len(called) = 2 =>
    \A a, b \in 1..Len(retLists) :
      LET ma == MatchedAt(retLists[a], retIdentifiers)
          mb == MatchedAt(retLists[b], retIdentifiers)
      IN /\ (\E i \in ma : \A j \in mb : i < j) => a < b
         /\ (/\ SameIgnoringCase(retLists[a], retIdentifiers[1])
             /\ \A j \in mb : ~SameIgnoringCase(retLists[b], retIdentifiers[j + 1]))
              => a < b

\* The line holds the marker, parses, is tagged as a custom-title record and
\* has a title that is not empty.
Qualifies(line) ==
  /\ line.markers > 0
  /\ line.parses
  /\ line.type = "custom-title"
  /\ line.customTitle.t # "undefined" /\ line.customTitle.v # <<>>

\* C17: getSessionName returns the title of the last line that qualifies,
\* whatever lines that do not parse, records of another type holding the
\* marker and custom-title records with an empty title stand around it, and
\* none when the file does not exist, cannot be read or has no such line.
C17_LastCustomTitle ==
  called = <<"getSessionName">> =>
    LET lines == argTranscript.lines
        qualifying == {k \in 1..Len(lines) : Qualifies(lines[k])}
    IN retTitle =
         IF argTranscript.exists /\ argTranscript.readable /\ qualifying # {}
           THEN lines[CHOOSE k \in qualifying : \A j \in qualifying : k >= j].customTitle
           ELSE NullTitle

\* C17 witness: a title, then a custom-title record with an empty title, a
\* line that does not parse and a record of another type holding the marker:
\* the first title is returned.
C17_Witness ==
  /\ called = <<"getSessionName">>
  /\ Len(argTranscript.lines) = 4
  /\ Qualifies(argTranscript.lines[1])
  /\ argTranscript.lines[2] = TitleLine([t |-> "string", v |-> <<>>])
  /\ ~argTranscript.lines[3].parses
  /\ argTranscript.lines[4].type = "user" /\ argTranscript.lines[4].markers > 0
  /\ retTitle = argTranscript.lines[1].customTitle

\* The directory holds one file that does not parse, and besides it only
\* valid task files, one of them pending.
OneUnparseableFile(dir) ==
  /\ dir.kind = "dir"
  /\ Cardinality({n \in 1..Len(dir.files) : dir.files[n] = "malformed"}) = 1
  /\ \A n \in 1..Len(dir.files) : dir.files[n] # "null"
  /\ \E n \in 1..Len(dir.files) : dir.files[n] = "pending"

\* C18 as claimed: when a resolved list holds one file that does not parse
\* next to valid task files, one of them pending, the valid tasks are still
\* counted and the run, unless the session gate lets the session stop, ends
\* in Block.
C18_UnparseableFileSkipped ==
  (/\ pc = "done" /\ ListsResolved /\ ~GateLetsStop
   /\ \E k \in 1..Len(listsToCheck) : OneUnparseableFile(store[listsToCheck[k]]))
    => Emitted("block")

\* stdin was read and was absent or did not parse.
NoStdin == stdin # <<>> /\ ~stdin[1].parses

\* C19 as claimed: when stdin is absent or does not parse, cwd is the
\* process's working directory, no transcript is read, the session gate does
\* not approve, and the run ends with a decision.
C19_NoStdinStillDecides ==
  NoStdin =>
    /\ cwd = processCwd
    /\ ~transcriptRead /\ sessionName = NullTitle
    /\ emittedAt # "gate"
    /\ pc \in Terminal => Len(output) = 1

\* The transcript files the run may have met: the one it read, or any when
\* it read none.
TranscriptsMet == IF transcript = <<>> THEN Transcripts ELSE {transcript[1]}

\* The output of a finished run is the one value the stdin payload, the
\* settings and environment, the transcript and the task store determine.
OutputDetermined ==
  pc \in Terminal =>
    \A file \in TranscriptsMet : output = runOutput(store, stdin[1], settings[1], file)

\* No step of run changes the task store, nor what it has read of stdin, the
\* settings and the transcript.
ReadOnlyStep ==
  /\ store' = store
  /\ stdin # <<>> => stdin' = stdin
  /\ settings # <<>> => settings' = settings
  /\ transcript # <<>> => transcript' = transcript

\* C20: run is deterministic and read-only: the decision and the reason it
\* writes are a function of the stdin payload, the settings, the environment,
\* the transcript and the task store, so two invocations with the same inputs
\* write the same; and no step changes the settings, transcript or task files.
C20_DeterministicReadOnly == []OutputDetermined /\ [][ReadOnlyStep]_vars

\* C20 witness: a run that read stdin, the settings and a transcript, loaded
\* a list with a completed task and ended in Block.
C20_Witness ==
  /\ pc = "done" /\ Emitted("block")
  /\ stdin # <<>> /\ settings # <<>> /\ transcript # <<>>
  /\ \E k \in 1..Len(loaded) : store[loaded[k]].kind = "dir"
\* Every pending or in-progress task file of the resolved lists has been
\* marked completed.
AllWorkDone ==
  \A k \in 1..Len(listsToCheck) :
    \A n \in 1..Len(store[listsToCheck[k]].files) :
      store[listsToCheck[k]].files[n] \notin {"pending", "in_progress"}

\* C21 as claimed: across the stop attempts of one session, in which no task
\* is added and every Block is followed by a task completing before the next
\* attempt, some invocation emits Approve, and once every task of the
\* resolved lists is completed every invocation that ends emits Approve.
C21_ApprovesOnceWorkIsDone ==
  /\ <>(pc = "done" /\ Emitted("approve"))
  /\ [][(pc \notin Terminal /\ pc' \in Terminal /\ ListsResolved' /\ AllWorkDone')
          => Emitted("approve")']_vars

\* The environment run met has CHECK_TASKS_DISABLED set to "1".
DisabledByEnv == settings # <<>> /\ settings[1].env.disabled = <<"1">>

KeywordStepTaken ==
  \/ pc = "mainTasks"
  \/ thrownAt = "mainTasks"
  \/ emittedAt \in {"keyword", "nodir", "nofiles", "final"}

\* C24 as claimed: in main, with a task list configured and the hook not
\* disabled, the keyword step approves exactly when neither the session name
\* nor the task list ID contains a configured keyword, ignoring case; when
\* either contains one, the task check is performed.
C24_KeywordOnEitherName ==
  KeywordStepTaken =>
    (emittedAt = "keyword" <=>
       /\ ~(sessionName.t = "string" /\ ContainsKeyword(keywords.v, sessionName.v))
       /\ ~ContainsKeyword(keywords.v, config.taskListId))

\* The taskListId of the settings config: that of the first settings file
\* defining checkTasksConfig, <<>> when it has none or no file defines one.
SettingsTaskListId(src) ==
  IF DefinesKey(src.project) THEN src.project.cfg.taskListId
  ELSE IF DefinesKey(src.global) THEN src.global.cfg.taskListId
  ELSE <<>>

\* C23 as claimed: the list checked is the settings config's taskListId when
\* set; otherwise the list CLAUDE_CODE_TASK_LIST_ID names when set, also
\* when a settings file defines the config without a taskListId; otherwise
\* the stored named lists matching the working directory.
C23_DocumentedResolutionOrder ==
  ListsResolved =>
    IF SettingsTaskListId(settings[1]) # <<>>
      THEN listsToCheck = <<SettingsTaskListId(settings[1])>>
    ELSE IF settings[1].env.taskListId # <<>>
      THEN listsToCheck = <<settings[1].env.taskListId>>
    ELSE \A n \in 1..Len(listsToCheck) :
           listsToCheck[n] \in StoredNames /\ InProject(listsToCheck[n], cwd)

\* The positions at which a segment of the path starts, and where the
\* segment starting at i ends.
SegmentStarts(path) ==
  {i \in 1..Len(path) : path[i] # "/" /\ (i = 1 \/ path[i - 1] = "/")}

SegmentEnd(path, i) ==
  CHOOSE j \in i..Len(path) :
    /\ \A k \in i..j : path[k] # "/"
    /\ j = Len(path) \/ path[j + 1] = "/"

\* The starts of the segments the claim keeps: more than three segments from
\* the root, three characters or more, no stoplist word in any casing.
KeptStarts(path) ==
  LET starts == SegmentStarts(path)
  IN {i \in starts :
        /\ Cardinality({j \in starts : j < i}) > 2
        /\ LET seg == SubSeq(path, i, SegmentEnd(path, i))
           IN /\ Len(seg) >= 3
              /\ ~\E g \in genericSegments : SameIgnoringCase(seg, g)}

\* C25: getProjectIdentifiers returns exactly the segments at index > 2 from
\* the root that have three characters or more and are not in the stoplist,
\* compared ignoring case; back to front, in their original casing, repeated
\* segments kept; the empty sequence when every segment is filtered out.
C25_IdentifiersCharacterised ==
  called # <<>> =>
    LET kept == KeptStarts(argCwd)
    IN /\ Len(retIdentifiers) = Cardinality(kept)
       /\ \A n \in 1..Len(retIdentifiers) :
            LET i == CHOOSE i \in kept : Cardinality({j \in kept : j > i}) = n - 1
            IN retIdentifiers[n] = SubSeq(argCwd, i, SegmentEnd(argCwd, i))

\* C25 witness: a path with an empty segment, a stoplist word in upper case
\* and a short segment below the third, giving acme-web before Acme.
C25_Witness ==
  /\ called # <<>> /\ argCwd = CwdNested
  /\ retIdentifiers = << <<"a","c","m","e","-","w","e","b">>, <<"A","c","m","e">> >>

\* The positions in the resolved order of the lists that yielded a pending
\* or in-progress task.
Contributors == {k \in 1..Len(listsToCheck) : RemainingIn(store, <<listsToCheck[k]>>) > 0}

\* C26: on every Block the reason names one list, the last in resolved order
\* that contributed a pending or in-progress task; it is one of the resolved
\* lists and is never absent.
C26_ReasonNamesLastContributor ==
  (pc = "done" /\ Emitted("block")) =>
    /\ Contributors # {}
    /\ output[1].reason.listInfo # <<>>
    /\ \E k \in Contributors :
         /\ \A j \in Contributors : j <= k
         /\ output[1].reason.listInfo = listsToCheck[k]

\* C26 witness: a Block over two lists that both have work left, naming the
\* second.
C26_Witness ==
  /\ pc = "done" /\ Emitted("block")
  /\ Len(listsToCheck) = 2
  /\ Contributors = {1, 2}
  /\ output[1].reason.listInfo = listsToCheck[2]

\* The place of a label in the order Start, ConfigLoaded, ListsResolved,
\* TasksAggregated, terminal.
StageOf(label) ==
  CASE label = "start" -> 0
    [] label = "config" -> 1
    [] label = "enabled" -> 2
    [] label = "resolve" -> 3
    [] label = "empty" -> 4
    [] label = "session" -> 5
    [] label = "gate" -> 6
    [] label = "collect" -> 7
    [] OTHER -> 8

\* C27 as claimed: every invocation of run ends in Approved or Blocked; no
\* step goes back to an earlier stage, and the loop loads each resolved list
\* once, in order.
C27_TerminatesInDecision ==
  /\ <>(pc = "done" /\ (Emitted("approve") \/ Emitted("block")))
  /\ [][\/ StageOf(pc') > StageOf(pc)
        \/ pc' = pc /\ pc = "collect" /\ listIndex' = listIndex + 1]_vars
  /\ [](emittedAt = "final" => loaded = listsToCheck)

\* The number of non-empty segments of a path.
SegmentCount(path) == Cardinality({i \in 1..Len(path) : path[i] # "/" /\ (i = 1 \/ path[i - 1] = "/")})

StopGroups(file) ==
  IF file.kind # "object" THEN <<>>
  ELSE IF file.value.hooks = <<>> THEN <<>>
  ELSE IF file.value.hooks[1].Stop = <<>> THEN <<>>
  ELSE file.value.hooks[1].Stop[1]

\* The entries of a group, none when it has no hooks array.
EntriesOf(group) == IF group.hooks = <<>> THEN <<>> ELSE group.hooks[1]

\* How many Stop hook entries of a settings file reference the package.
PackageEntryCount(file) ==
  Cardinality({gh \in (1..Len(StopGroups(file))) \X (1..3) :
                 /\ gh[2] <= Len(EntriesOf(StopGroups(file)[gh[1]]))
                 /\ commandIncludesPackage(EntriesOf(StopGroups(file)[gh[1]])[gh[2]])})

\* C29: from a settings file without an entry of the package, whatever
\* installer commands run, the Stop hooks hold at most one entry that
\* references the package; an install that finds the hook and writes leaves
\* the hooks and the other keys as they were; and a file written by install
\* or config has checkTasksConfig.enabled = true.
C29_InstallerKeepsOneEntry ==
  /\ [](PackageEntryCount(settingsFile) <= 1)
  /\ [][(/\ lastCommand'.name = "install"
         /\ lastCommand'.wrote
         /\ PackageEntryCount(settingsFile) > 0)
          => /\ settingsFile'.value.hooks = settingsFile.value.hooks
             /\ settingsFile'.value.model = settingsFile.value.model]_vars
  /\ []((lastCommand.name \in {"install", "config"} /\ lastCommand.wrote)
          => /\ settingsFile.kind = "object"
             /\ settingsFile.value.checkTasksConfig # <<>>
             /\ settingsFile.value.checkTasksConfig[1].enabled = "true")

\* C29 witness: install has written over a configuration that was disabled;
\* the package's entry sits in a group of its own behind another group.
C29_Witness ==
  /\ lastCommand = [name |-> "install", wrote |-> TRUE, threw |-> FALSE]
  /\ PackageEntryCount(settingsFile) = 1
  /\ Len(StopGroups(settingsFile)) = 2
  /\ EntriesOf(StopGroups(settingsFile)[1]) = <<>>
  /\ settingsFile.value.checkTasksConfig[1].enabled = "true"
  /\ settingsFile.value.checkTasksConfig[1].taskListId = ProjDev

\* A group holds an entry of the package.
HoldsPackageEntry(group) ==
  \E h \in 1..Len(EntriesOf(group)) : commandIncludesPackage(EntriesOf(group)[h])

\* The groups a file's Stop hooks are to hold after an uninstall: each group
\* without its package entries, in order. emptied: whether a group that held
\* nothing but package entries stays, empty, or goes.
StopGroupsWithoutPackage(file, emptied) ==
  LET groups == SelectSeq(StopGroups(file),
                          LAMBDA g : \/ emptied
                                     \/ ~HoldsPackageEntry(g)
                                     \/ EntriesOf(withoutPackage(g)) # <<>>)
  IN [g \in 1..Len(groups) |-> withoutPackage(groups[g])]

\* C30 as claimed: an uninstall that finds the hook writes the file without
\* the package's entries and without checkTasksConfig, every other entry,
\* group and key as before and in order; an uninstall that finds no file or
\* no hook, or resolves no target, writes nothing.
C30_UninstallRemovesOnlyItsOwn ==
  [][lastCommand'.name = "uninstall" =>
       \/ settingsFile' = settingsFile /\ ~lastCommand'.wrote
       \/ /\ PackageEntryCount(settingsFile) > 0
          /\ lastCommand'.wrote
          /\ settingsFile'.kind = "object"
          /\ settingsFile'.value.checkTasksConfig = <<>>
          /\ settingsFile'.value.model = settingsFile.value.model
          /\ settingsFile'.value.hooks # <<>>
          /\ settingsFile'.value.hooks[1].PreToolUse = settingsFile.value.hooks[1].PreToolUse
          /\ StopGroups(settingsFile') \in {StopGroupsWithoutPackage(settingsFile, TRUE),
                                           StopGroupsWithoutPackage(settingsFile, FALSE)}]_vars
====
